---------------------------- MODULE Spec2Model ----------------------------
(***************************************************************************)
(* Client-side orchestration of the F1 sentiment front end.                *)
(*                                                                         *)
(* Two versions of the page script are in the repository and both are     *)
(* modelled:                                                               *)
(*   - src/unnamed/part_002: realtime analysis returns a batch of          *)
(*     visualizations that is cached (lastRealtimeVisualizations) and a    *)
(*     visualization-type change is served by handleVizTypeChange;         *)
(*     specification Spec.                                                 *)
(*   - src/front end/ts/app.ts: realtime analysis returns one              *)
(*     visualization or a warning, after which pollForVisualization is     *)
(*     awaited; specification SpecTs.                                      *)
(* pollForVisualization itself (the same text in both files) is also       *)
(* checked alone, for every maxAttempts, under SpecPoll.                   *)
(*                                                                         *)
(* One action is one task of the browser's event loop: an event handler or *)
(* the continuation of an async function after an await, run to its next   *)
(* await.  Continuations chained by already-settled promises run in the    *)
(* same task (microtasks), so they belong to the same action.              *)
(***************************************************************************)
EXTENDS Integers, Sequences, FiniteSets, TLC

\* ------------------------------------------------------------------ bounds
MaxInflight == 2          \* analyze actions in flight at once
MaxSessionRequests == 1   \* session-list requests in flight at once
MaxVizRequests == 1       \* handleVizTypeChange fetches in flight at once
MaxUserEvents == 6        \* events the user raises in one page session (Spec)
MaxUserEventsTs == 4      \* events the user raises in one page session (SpecTs)
MaxAttemptsBound == 3     \* largest maxAttempts pollForVisualization is called with (SpecPoll)
MaxResets == 2            \* calls of resetToStep in a row (SpecReset)
MaxToasts == 3            \* calls of showToast in one page session (SpecToast)

\* ------------------------------------------------- environment (the backend)
Null == "null"            \* JavaScript null / a missing field
Empty == ""               \* the value of the placeholder option of the round dropdown
Rounds == {"1", "2"}      \* the rounds GET /races returns
SessionsOf(r) == IF r = "1" THEN <<"FP1", "Race">> ELSE <<"Race">>
VizTypes == {"timeline", "wordcloud", "heatmap"}   \* the viz-type radio buttons
\* key order of the visualizations object of a realtime response
BatchShapes == {<<>>, <<"timeline">>, <<"timeline", "wordcloud">>, <<"wordcloud", "timeline">>}
\* message of the TypeError a failed fetch() rejects with (Chrome/Firefox, Safari)
TransportMessages == {"Failed to fetch", "Load failed"}

\* a Visualization {type, data}: data is the image the backend made for (round, session, type)
Visualization(t, r, s) == [type |-> t, round |-> r, session |-> s]
None == <<>>
Some(v) == <<v>>

Range(s) == {s[i] : i \in DOMAIN s}
RemoveAt(s, i) == SubSeq(s, 1, i - 1) \o SubSeq(s, i + 1, Len(s))
Falsy(v) == v = Null \/ v = Empty          \* !v for a string-or-null

\* a response of the backend, as the handlers read it: hasData says that the payload
\* field the handler wants (races, sessions, visualizations) is present, types lists
\* the visualizations it holds
Outcome(kind, success, hasData, types, stats, error, warning, msg) ==
    [kind |-> kind, success |-> success, hasData |-> hasData, types |-> types,
     stats |-> stats, error |-> error, warning |-> warning, msg |-> msg]
NoOutcome == Outcome("none", FALSE, FALSE, <<>>, FALSE, Null, Null, Null)
\* fetch() rejected: no response
TransportError(m) == Outcome("transport", FALSE, FALSE, <<>>, FALSE, Null, Null, m)
\* response.ok is false; msg is "status: statusText"
HttpError == Outcome("http", FALSE, FALSE, <<>>, FALSE, Null, Null, "500: INTERNAL SERVER ERROR")
\* response.json() rejected
ParseError == Outcome("parse", FALSE, FALSE, <<>>, FALSE, Null, Null, "Unexpected token")
Json(success, hasData, types, stats, error, warning) ==
    Outcome("json", success, hasData, types, stats, error, warning, Null)

\* ------------------------------------------------------------------- state
VARIABLES
    currentRound,                \* part_002:33
    selectedSession,             \* part_002:34
    checkedVizType,              \* value of the checked input[name="viz-type"], Null if none
    lastRealtimeVisualizations,  \* part_002:38: None or Some([types, round, session])
    analyzeButton,               \* [disabled, textContent] of #analyze-btn
    roundOptions,                \* the rounds offered by the #round dropdown
    sessionGrid,                 \* [sessions, checked]: radios of #session-grid
    sentimentImage,              \* None or Some(Visualization) shown by #sentiment-image
    cards,                       \* the cards that are not hidden
    currStep,                    \* part_002:49
    loading,                     \* #realtime-loading: "absent", "shown", "hidden"
    racesRequest,                \* GET /races: "pending" or "done"
    sessionRequests,             \* rounds of the GET /sessions/{round} in flight, oldest first
    vizRequests,                 \* the GETs of handleVizTypeChange in flight
    analyses,                    \* the analyze actions in flight, oldest first
    userEvents,                  \* the number of events the user has raised
    ev,                          \* history: the last task run and its effects in order
    notifier                     \* #toast-container and the timers of showToast (SpecToast)

vars == <<currentRound, selectedSession, checkedVizType, lastRealtimeVisualizations,
          analyzeButton, roundOptions, sessionGrid, sentimentImage, cards, currStep,
          loading, racesRequest, sessionRequests, vizRequests, analyses, userEvents, ev,
          notifier>>

\* ------------------------------------------------------------ history (ev)
Eff(e, arg) == [e |-> e, arg |-> arg]
Disable == Eff("disable", <<>>)
Enable == Eff("enable", <<>>)
\* op: the task; trace: its effects in program order
Event(op, trace) == [op |-> op, trace |-> trace]
Toasts(trace) == SelectSeq(trace, LAMBDA x : x.e = "toast")
ToastsOfKind(trace, kind) == SelectSeq(trace, LAMBDA x : x.e = "toast" /\ x.arg[1] = kind)
Fetches(trace) == SelectSeq(trace, LAMBDA x : x.e = "fetch")
Count(trace, e) == Len(SelectSeq(trace, LAMBDA x : x.e = e))

\* --------------------------------------------------------------- helpers
\* showToast(message, type): one toast element appended to #toast-container
showToast(message, kind) == Eff("toast", <<kind>> \o message)
showError(message) == showToast(message, "error")

\* #toast-container with no toast in it, and no timer of showToast pending; raised
\* counts the calls of showToast, removed lists the toasts removed, in order. The page
\* specifications record the toasts a task raises in ev and leave the container to
\* SpecToast.
NoToasts == [children |-> <<>>, timers |-> <<>>, raised |-> 0, removed |-> <<>>]

getSelectedVisualizationType == IF checkedVizType = Null THEN "timeline" ELSE checkedVizType

\* mutant: case 4 without showCard('session-selection')
resetToStepGap(step) ==
    CASE step = 1 -> {}
      [] step = 2 -> {"session-selection"}
      [] step = 3 -> {"session-selection", "visualization-selection"}
      [] step = 4 -> {"visualization-selection", "results-card"}

\* the cards resetToStep(step) leaves visible
resetToStep(step) ==
    CASE step = 1 -> {}
      [] step = 2 -> {"session-selection"}
      [] step = 3 -> {"session-selection", "visualization-selection"}
      [] step = 4 -> {"session-selection", "visualization-selection", "results-card"}

\* the button updateAnalyzeButton() leaves, given selectedSession
updateAnalyzeButton(session) ==
    IF session # Null
    THEN [disabled |-> FALSE, textContent |-> <<"Real-time Analyze", session>>]
    ELSE [disabled |-> TRUE, textContent |-> <<"Select session to analyze">>]

\* displayVisualization(v) on an undefined v throws a TypeError with this message
UndefinedDataMessage == "Cannot read properties of undefined (reading 'data')"

\* an analyze action in flight: the POST it awaits and, in app.ts, its poll
Analysis(round, session, type) ==
    [pc |-> "post", round |-> round, session |-> session, type |-> type, poll |-> None]

\* ------------------------------------------------------------------- Init
\* the state when the DOMContentLoaded handler (part_002:53-99) has returned:
\* loadRaces() awaits GET /races, the listeners are attached
Init ==
    /\ currentRound = Null
    /\ selectedSession = Null
    /\ checkedVizType = Null        \* no radio checked: the type is 'timeline' either way
    /\ lastRealtimeVisualizations = None
    /\ analyzeButton \in {[disabled |-> d, textContent |-> <<"markup">>] : d \in BOOLEAN}
    /\ roundOptions = {}
    /\ sessionGrid = [sessions |-> <<>>, checked |-> Null]
    /\ sentimentImage = None
    /\ cards = {}
    /\ currStep = 1
    /\ loading = "absent"
    /\ racesRequest = "pending"
    /\ sessionRequests = <<>>
    /\ vizRequests = <<>>
    /\ analyses = <<>>
    /\ userEvents = 0
    /\ ev = Event("DOMContentLoaded", <<Eff("fetch", <<"races">>)>>)
    /\ notifier = NoToasts

\* ------------------------------------------------------- races and sessions
RacesOutcomes ==
    {TransportError(m) : m \in TransportMessages} \cup {HttpError, ParseError}
    \cup {Json(TRUE, TRUE, <<>>, FALSE, Null, Null),      \* success, races present
          Json(TRUE, FALSE, <<>>, FALSE, Null, Null),     \* success, no races field
          Json(FALSE, TRUE, <<>>, FALSE, Null, Null),     \* races present, success=false
          Json(FALSE, FALSE, <<>>, FALSE, "boom", Null),
          Json(FALSE, FALSE, <<>>, FALSE, Null, Null)}

ConnectMessage == <<"Error connecting to server. Make sure your Flask server is running on port 5000!">>
ErrorOr(o, fallback) == IF o.error = Null THEN fallback ELSE o.error

\* mutant: the payload's error string dropped from the message
loadRacesTraceGeneric(o) ==
    CASE o.kind \in {"transport", "http", "parse"} -> <<showError(ConnectMessage)>>
      [] o.kind = "json" /\ o.success /\ o.hasData -> <<Eff("populateRaceDropdown", <<>>)>>
      [] OTHER -> <<showError(<<"Failed to load races: ", "Unknown error">>)>>

\* the effects of loadRaces() after its fetch settled with o
loadRacesTrace(o) ==
    CASE o.kind \in {"transport", "http", "parse"} -> <<showError(ConnectMessage)>>
      [] o.kind = "json" /\ o.success /\ o.hasData -> <<Eff("populateRaceDropdown", <<>>)>>
      [] OTHER -> <<showError(<<"Failed to load races: ", ErrorOr(o, "Unknown error")>>)>>

loadRaces(o) ==
    /\ racesRequest = "pending"
    /\ racesRequest' = "done"
    /\ roundOptions' = IF o.kind = "json" /\ o.success /\ o.hasData THEN Rounds ELSE roundOptions
    /\ ev' = Event("loadRaces", loadRacesTrace(o))
    /\ UNCHANGED <<currentRound, selectedSession, checkedVizType, lastRealtimeVisualizations,
                   analyzeButton, sessionGrid, sentimentImage, cards, currStep, loading,
                   sessionRequests, vizRequests, analyses>>

\* mutant: loadSessions(currentRound) called without the test of currentRound
roundChangeAlwaysLoads(r) ==
    /\ r \in roundOptions \cup {Empty}
    /\ r # (IF currentRound = Null THEN Empty ELSE currentRound)
    /\ currentRound' = r
    /\ Len(sessionRequests) < MaxSessionRequests
    /\ cards' = resetToStep(2)
    /\ currStep' = 2
    /\ sessionRequests' = Append(sessionRequests, r)
    /\ ev' = Event("roundChange", <<Eff("resetToStep", <<"2">>), Eff("fetch", <<"sessions", r>>)>>)
    /\ UNCHANGED <<sessionGrid, selectedSession, analyzeButton>>
    /\ UNCHANGED <<checkedVizType, lastRealtimeVisualizations, roundOptions, sentimentImage,
                   loading, racesRequest, vizRequests, analyses>>

\* mutant: the empty branch without selectedSession = null and updateAnalyzeButton()
roundChangeKeepsSession(r) ==
    /\ r \in roundOptions \cup {Empty}
    /\ r # (IF currentRound = Null THEN Empty ELSE currentRound)
    /\ currentRound' = r
    /\ IF ~Falsy(r)
       THEN /\ Len(sessionRequests) < MaxSessionRequests
            /\ cards' = resetToStep(2)
            /\ currStep' = 2
            /\ sessionRequests' = Append(sessionRequests, r)
            /\ ev' = Event("roundChange", <<Eff("resetToStep", <<"2">>), Eff("fetch", <<"sessions", r>>)>>)
            /\ UNCHANGED sessionGrid
       ELSE /\ cards' = resetToStep(1)
            /\ currStep' = 1
            /\ sessionGrid' = [sessions |-> <<>>, checked |-> Null]
            /\ ev' = Event("roundChange", <<Eff("resetToStep", <<"1">>), Eff("clearGrid", <<>>)>>)
            /\ UNCHANGED sessionRequests
    /\ UNCHANGED <<checkedVizType, lastRealtimeVisualizations, roundOptions, sentimentImage,
                   loading, racesRequest, vizRequests, analyses, selectedSession, analyzeButton>>

\* the change listener of #round: the user picks another option
roundChange(r) ==
    /\ r \in roundOptions \cup {Empty}
    /\ r # (IF currentRound = Null THEN Empty ELSE currentRound)
    /\ currentRound' = r
    /\ IF ~Falsy(r)
       THEN /\ Len(sessionRequests) < MaxSessionRequests
            /\ cards' = resetToStep(2)
            /\ currStep' = 2
            /\ sessionRequests' = Append(sessionRequests, r)
            /\ ev' = Event("roundChange", <<Eff("resetToStep", <<"2">>), Eff("fetch", <<"sessions", r>>)>>)
            /\ UNCHANGED <<sessionGrid, selectedSession, analyzeButton>>
       ELSE /\ cards' = resetToStep(1)
            /\ currStep' = 1
            /\ sessionGrid' = [sessions |-> <<>>, checked |-> Null]
            /\ selectedSession' = Null
            /\ analyzeButton' = updateAnalyzeButton(Null)
            /\ ev' = Event("roundChange", <<Eff("resetToStep", <<"1">>), Eff("clearGrid", <<>>),
                             Eff("clearSession", <<>>), Eff("updateAnalyzeButton", <<>>)>>)
            /\ UNCHANGED sessionRequests
    /\ UNCHANGED <<checkedVizType, lastRealtimeVisualizations, roundOptions, sentimentImage,
                   loading, racesRequest, vizRequests, analyses>>

\* the responses GET /sessions/{r} can get (loadSessions does not read response.ok)
SessionsOutcomes ==
    {TransportError(m) : m \in TransportMessages} \cup {ParseError}
    \cup {Json(TRUE, TRUE, <<>>, FALSE, Null, Null),      \* success, sessions present
          Json(TRUE, FALSE, <<>>, FALSE, Null, Null),
          Json(FALSE, TRUE, <<>>, FALSE, Null, Null),     \* sessions present, success=false
          Json(FALSE, FALSE, <<>>, FALSE, "boom", Null),
          Json(FALSE, FALSE, <<>>, FALSE, Null, Null)}

loadSessionsTrace(o) ==
    CASE o.kind \in {"transport", "parse"} -> <<showError(<<"Error loading sessions">>)>>
      [] o.kind = "json" /\ o.success /\ o.hasData ->
            <<Eff("clearGrid", <<>>), Eff("clearSession", <<>>), Eff("populateSessionGrid", <<>>)>>
      [] OTHER -> <<showError(<<"Failed to load sessions: ", ErrorOr(o, "Unknown error")>>)>>

\* loadSessions(roundNum) after its fetch settled: request i for round sessionRequests[i]
loadSessions(i, o) ==
    /\ i \in DOMAIN sessionRequests
    /\ sessionRequests' = RemoveAt(sessionRequests, i)
    /\ IF o.kind = "json" /\ o.success /\ o.hasData
       THEN \* populateSessionGrid(data.sessions)
            /\ sessionGrid' = [sessions |-> SessionsOf(sessionRequests[i]), checked |-> Null]
            /\ selectedSession' = Null
       ELSE UNCHANGED <<sessionGrid, selectedSession>>
    /\ ev' = Event("loadSessions", loadSessionsTrace(o))
    /\ UNCHANGED <<currentRound, checkedVizType, lastRealtimeVisualizations, analyzeButton,
                   roundOptions, sentimentImage, cards, currStep, loading, racesRequest,
                   vizRequests, analyses>>

\* mutant: the session radio listener calls resetToStep(3)
sessionChangeStepThree(s) ==
    /\ s \in Range(sessionGrid.sessions)
    /\ s # sessionGrid.checked
    /\ sessionGrid' = [sessionGrid EXCEPT !.checked = s]
    /\ selectedSession' = s
    /\ cards' = resetToStep(3)
    /\ currStep' = 3
    /\ analyzeButton' = updateAnalyzeButton(s)
    /\ ev' = Event("sessionChange", <<Eff("setSession", <<s>>), Eff("resetToStep", <<"3">>),
                     Eff("updateAnalyzeButton", <<>>)>>)
    /\ UNCHANGED <<currentRound, checkedVizType, lastRealtimeVisualizations, roundOptions,
                   sentimentImage, loading, racesRequest, sessionRequests, vizRequests,
                   analyses>>

\* the change listener of a session radio: the user checks the radio of session s
sessionChange(s) ==
    /\ s \in Range(sessionGrid.sessions)
    /\ s # sessionGrid.checked
    /\ sessionGrid' = [sessionGrid EXCEPT !.checked = s]
    /\ selectedSession' = s
    /\ cards' = resetToStep(2)
    /\ currStep' = 2
    /\ analyzeButton' = updateAnalyzeButton(s)
    /\ ev' = Event("sessionChange", <<Eff("setSession", <<s>>), Eff("resetToStep", <<"2">>),
                     Eff("updateAnalyzeButton", <<>>)>>)
    /\ UNCHANGED <<currentRound, checkedVizType, lastRealtimeVisualizations, roundOptions,
                   sentimentImage, loading, racesRequest, sessionRequests, vizRequests,
                   analyses>>

\* ---------------------------------------------------------- analyze action
ValidationMessage == <<"Please select a session first!">>

\* mutant: the validation return placed inside the try, so that resetToStep(4) and the
\* finally block run on a rejected click
handleAnalyzeClickRejectInTry(type) ==
    IF analyzeButton.disabled
    THEN /\ ev' = Event("handleAnalyzeClick", <<>>)
         /\ UNCHANGED <<currentRound, selectedSession, checkedVizType,
                        lastRealtimeVisualizations, analyzeButton, roundOptions, sessionGrid,
                        sentimentImage, cards, currStep, loading, racesRequest,
                        sessionRequests, vizRequests, analyses>>
    ELSE IF Falsy(selectedSession) \/ Falsy(currentRound)
    THEN /\ analyzeButton' = updateAnalyzeButton(selectedSession)
         /\ cards' = resetToStep(4)
         /\ currStep' = 4
         /\ ev' = Event("handleAnalyzeClick",
                        <<Disable, showToast(ValidationMessage, "error"),
                          Eff("resetToStep", <<"4">>), Enable, Eff("updateAnalyzeButton", <<>>)>>)
         /\ UNCHANGED <<currentRound, selectedSession, checkedVizType,
                        lastRealtimeVisualizations, roundOptions, sessionGrid,
                        sentimentImage, loading, racesRequest,
                        sessionRequests, vizRequests, analyses>>
    ELSE /\ Len(analyses) < MaxInflight
         /\ analyzeButton' = [disabled |-> TRUE, textContent |-> <<"Processing real-time data...">>]
         /\ loading' = "shown"
         /\ analyses' = Append(analyses, Analysis(currentRound, selectedSession, type))
         /\ ev' = Event("handleAnalyzeClick", <<Disable, Disable, Eff("showRealtimeLoadingState", <<>>),
                          Eff("fetch", <<"realtime-analysis", currentRound, selectedSession, type>>)>>)
         /\ UNCHANGED <<currentRound, selectedSession, checkedVizType,
                        lastRealtimeVisualizations, roundOptions, sessionGrid,
                        sentimentImage, cards, currStep, racesRequest, sessionRequests,
                        vizRequests>>

\* handleAnalyzeClick up to its first await: analyzeSentiment() and the part of
\* performRealtimeAnalysis() that runs up to the fetch of the POST; type is the
\* ?type= of the URL (Null when the URL has none)
handleAnalyzeClick(type) ==
    IF analyzeButton.disabled
    THEN /\ ev' = Event("handleAnalyzeClick", <<>>)
         /\ UNCHANGED <<currentRound, selectedSession, checkedVizType,
                        lastRealtimeVisualizations, analyzeButton, roundOptions, sessionGrid,
                        sentimentImage, cards, currStep, loading, racesRequest,
                        sessionRequests, vizRequests, analyses>>
    ELSE IF Falsy(selectedSession) \/ Falsy(currentRound)
    THEN /\ analyzeButton' = [analyzeButton EXCEPT !.disabled = FALSE]
         /\ ev' = Event("handleAnalyzeClick", <<Disable, showToast(ValidationMessage, "error"), Enable>>)
         /\ UNCHANGED <<currentRound, selectedSession, checkedVizType,
                        lastRealtimeVisualizations, roundOptions, sessionGrid,
                        sentimentImage, cards, currStep, loading, racesRequest,
                        sessionRequests, vizRequests, analyses>>
    ELSE /\ Len(analyses) < MaxInflight
         /\ analyzeButton' = [disabled |-> TRUE, textContent |-> <<"Processing real-time data...">>]
         /\ loading' = "shown"
         /\ analyses' = Append(analyses, Analysis(currentRound, selectedSession, type))
         /\ ev' = Event("handleAnalyzeClick", <<Disable, Disable, Eff("showRealtimeLoadingState", <<>>),
                          Eff("fetch", <<"realtime-analysis", currentRound, selectedSession, type>>)>>)
         /\ UNCHANGED <<currentRound, selectedSession, checkedVizType,
                        lastRealtimeVisualizations, roundOptions, sessionGrid,
                        sentimentImage, cards, currStep, racesRequest, sessionRequests,
                        vizRequests>>

\* the responses POST /realtime-analysis/{round}/{session} can get (part_002)
RealtimeOutcomes ==
    {TransportError(m) : m \in TransportMessages} \cup {HttpError, ParseError}
    \cup {Json(TRUE, TRUE, shape, stats, Null, Null) : shape \in BatchShapes, stats \in BOOLEAN}
    \cup {Json(TRUE, FALSE, <<>>, FALSE, Null, "still processing"),
          Json(TRUE, FALSE, <<>>, FALSE, Null, Null),
          Json(FALSE, FALSE, <<>>, FALSE, "boom", Null),
          Json(FALSE, FALSE, <<>>, FALSE, Null, Null)}

\* error.message.includes('fetch')
IncludesFetch(m) == m = "Failed to fetch"
RealtimeFailed == "Real-time analysis failed: "
CannotConnect == <<"Cannot connect to server. Make sure your Flask server is running!">>
SubstitutionMessage(selected, first) ==
    <<"Note: ", selected, " visualization not available, showing ", first, " instead.">>
CompletedMessage(stats) ==
    IF stats THEN <<"Analysis completed! Generated ", "visualizations_generated",
                    " visualizations from ", "post_limit", " posts.">>
    ELSE <<"Real-time analysis completed successfully!">>
Display(v) == Eff("display", <<v.type, v.round, v.session>>)

\* mutant: the catch block rethrows, and the catch of handleAnalyzeClick reports again
realtimeCatchRethrows(isTypeError, m) ==
    (IF isTypeError /\ IncludesFetch(m) THEN <<showError(CannotConnect)>>
     ELSE <<showError(<<RealtimeFailed, m>>)>>) \o <<showError(<<"Analysis failed: ", m>>)>>

\* the catch block of performRealtimeAnalysis, for an error with message m
realtimeCatch(isTypeError, m) ==
    IF isTypeError /\ IncludesFetch(m) THEN <<showError(CannotConnect)>>
    ELSE <<showError(<<RealtimeFailed, m>>)>>

\* the finally block of performRealtimeAnalysis, then the rest of handleAnalyzeClick
realtimeFinally ==
    <<Eff("hideRealtimeLoadingState", <<>>), Enable, Eff("updateAnalyzeButton", <<>>),
      Eff("resetToStep", <<"4">>), Enable, Eff("updateAnalyzeButton", <<>>)>>

\* mutant: image and cached batch reset when the analysis did not succeed
realtimeTryClearsOnFailure(a, o) ==
    LET selectedVizType == getSelectedVisualizationType
        batch == [types |-> Range(o.types), round |-> a.round, session |-> a.session]
        cleared == [image |-> None, cache |-> None]
    IN  CASE o.kind = "transport" -> cleared @@ [trace |-> realtimeCatch(TRUE, o.msg)]
          [] o.kind = "http" -> cleared @@ [trace |-> realtimeCatch(FALSE, "HTTP " \o o.msg)]
          [] o.kind = "parse" -> cleared @@ [trace |-> realtimeCatch(FALSE, o.msg)]
          [] o.kind = "json" /\ o.success /\ o.hasData ->
                IF selectedVizType \in Range(o.types)
                THEN LET v == Visualization(selectedVizType, a.round, a.session)
                     IN  [image |-> Some(v), cache |-> Some(batch),
                          trace |-> <<Eff("cache", <<>>), Display(v),
                                      showToast(CompletedMessage(o.stats), "success")>>]
                ELSE IF o.types = <<>>
                THEN [image |-> sentimentImage, cache |-> Some(batch),
                      trace |-> <<Eff("cache", <<>>)>> \o realtimeCatch(TRUE, UndefinedDataMessage)]
                ELSE LET v == Visualization(o.types[1], a.round, a.session)
                     IN  [image |-> Some(v), cache |-> Some(batch),
                          trace |-> <<Eff("cache", <<>>), Display(v),
                                      showToast(SubstitutionMessage(selectedVizType, o.types[1]), "info"),
                                      showToast(CompletedMessage(o.stats), "success")>>]
          [] OTHER -> cleared @@ [trace |-> <<showError(<<RealtimeFailed,
                                                         ErrorOr(o, "Unknown error occurred")>>)>>]

\* mutant: the first listed type displayed whatever type is selected
realtimeTryFirstListed(a, o) ==
    LET batch == [types |-> Range(o.types), round |-> a.round, session |-> a.session]
        keep == [image |-> sentimentImage, cache |-> lastRealtimeVisualizations]
    IN  IF o.kind = "json" /\ o.success /\ o.hasData /\ o.types # <<>>
        THEN LET v == Visualization(o.types[1], a.round, a.session)
             IN  [image |-> Some(v), cache |-> Some(batch),
                  trace |-> <<Eff("cache", <<>>), Display(v),
                              showToast(CompletedMessage(o.stats), "success")>>]
        ELSE keep @@ [trace |-> <<showError(<<RealtimeFailed,
                                             ErrorOr(o, "Unknown error occurred")>>)>>]

\* mutant: an empty visualizations object displays nothing and counts as a success
realtimeTryEmptyIsSuccess(a, o) ==
    LET selectedVizType == getSelectedVisualizationType
        batch == [types |-> Range(o.types), round |-> a.round, session |-> a.session]
        keep == [image |-> sentimentImage, cache |-> lastRealtimeVisualizations]
    IN  CASE o.kind = "transport" -> keep @@ [trace |-> realtimeCatch(TRUE, o.msg)]
          [] o.kind = "http" -> keep @@ [trace |-> realtimeCatch(FALSE, "HTTP " \o o.msg)]
          [] o.kind = "parse" -> keep @@ [trace |-> realtimeCatch(FALSE, o.msg)]
          [] o.kind = "json" /\ o.success /\ o.hasData ->
                IF selectedVizType \in Range(o.types)
                THEN LET v == Visualization(selectedVizType, a.round, a.session)
                     IN  [image |-> Some(v), cache |-> Some(batch),
                          trace |-> <<Eff("cache", <<>>), Display(v),
                                      showToast(CompletedMessage(o.stats), "success")>>]
                ELSE IF o.types = <<>>
                THEN [image |-> sentimentImage, cache |-> Some(batch),
                      trace |-> <<Eff("cache", <<>>),
                                  showToast(CompletedMessage(o.stats), "success")>>]
                ELSE LET v == Visualization(o.types[1], a.round, a.session)
                     IN  [image |-> Some(v), cache |-> Some(batch),
                          trace |-> <<Eff("cache", <<>>), Display(v),
                                      showToast(SubstitutionMessage(selectedVizType, o.types[1]), "info"),
                                      showToast(CompletedMessage(o.stats), "success")>>]
          [] OTHER -> keep @@ [trace |-> <<showError(<<RealtimeFailed,
                                                      ErrorOr(o, "Unknown error occurred")>>)>>]

\* the try block of performRealtimeAnalysis (part_002:227-269) after the POST of analysis a
\* settled with o: the effects in order, the image and the cached batch it leaves
realtimeTry(a, o) ==
    LET selectedVizType == getSelectedVisualizationType
        batch == [types |-> Range(o.types), round |-> a.round, session |-> a.session]
        keep == [image |-> sentimentImage, cache |-> lastRealtimeVisualizations]
    IN  CASE o.kind = "transport" -> keep @@ [trace |-> realtimeCatch(TRUE, o.msg)]
          [] o.kind = "http" -> keep @@ [trace |-> realtimeCatch(FALSE, "HTTP " \o o.msg)]
          [] o.kind = "parse" -> keep @@ [trace |-> realtimeCatch(FALSE, o.msg)]
          [] o.kind = "json" /\ o.success /\ o.hasData ->
                IF selectedVizType \in Range(o.types)
                THEN LET v == Visualization(selectedVizType, a.round, a.session)
                     IN  [image |-> Some(v), cache |-> Some(batch),
                          trace |-> <<Eff("cache", <<>>), Display(v),
                                      showToast(CompletedMessage(o.stats), "success")>>]
                ELSE IF o.types = <<>>
                THEN \* vizTypes[0] is undefined: displayVisualization throws
                     [image |-> sentimentImage, cache |-> Some(batch),
                      trace |-> <<Eff("cache", <<>>)>> \o realtimeCatch(TRUE, UndefinedDataMessage)]
                ELSE LET v == Visualization(o.types[1], a.round, a.session)
                     IN  [image |-> Some(v), cache |-> Some(batch),
                          trace |-> <<Eff("cache", <<>>), Display(v),
                                      showToast(SubstitutionMessage(selectedVizType, o.types[1]), "info"),
                                      showToast(CompletedMessage(o.stats), "success")>>]
          [] OTHER -> keep @@ [trace |-> <<showError(<<RealtimeFailed,
                                                      ErrorOr(o, "Unknown error occurred")>>)>>]

\* mutant: the finally block without hideRealtimeLoadingState()
performRealtimeAnalysisNoHide(i, o) ==
    /\ i \in DOMAIN analyses
    /\ analyses[i].pc = "post"
    /\ LET r == realtimeTry(analyses[i], o)
       IN  /\ sentimentImage' = r.image
           /\ lastRealtimeVisualizations' = r.cache
           /\ ev' = Event("performRealtimeAnalysis", r.trace \o realtimeFinally)
    /\ analyses' = RemoveAt(analyses, i)
    /\ cards' = resetToStep(4)
    /\ currStep' = 4
    /\ analyzeButton' = updateAnalyzeButton(selectedSession)
    /\ UNCHANGED <<currentRound, selectedSession, checkedVizType, roundOptions, sessionGrid,
                   racesRequest, sessionRequests, vizRequests, loading>>

\* mutant: handleAnalyzeClick without resetToStep(4) after analyzeSentiment()
performRealtimeAnalysisNoStep(i, o) ==
    /\ i \in DOMAIN analyses
    /\ analyses[i].pc = "post"
    /\ LET r == realtimeTry(analyses[i], o)
       IN  /\ sentimentImage' = r.image
           /\ lastRealtimeVisualizations' = r.cache
           /\ ev' = Event("performRealtimeAnalysis", r.trace \o realtimeFinally)
    /\ analyses' = RemoveAt(analyses, i)
    /\ loading' = "hidden"
    /\ analyzeButton' = updateAnalyzeButton(selectedSession)
    /\ UNCHANGED <<currentRound, selectedSession, checkedVizType, roundOptions, sessionGrid,
                   racesRequest, sessionRequests, vizRequests, cards, currStep>>

\* mutant: resetToStep(4) only when a visualization was displayed
performRealtimeAnalysisStepOnDisplay(i, o) ==
    /\ i \in DOMAIN analyses
    /\ analyses[i].pc = "post"
    /\ LET r == realtimeTry(analyses[i], o)
       IN  /\ sentimentImage' = r.image
           /\ lastRealtimeVisualizations' = r.cache
           /\ ev' = Event("performRealtimeAnalysis", r.trace \o realtimeFinally)
           /\ IF Count(r.trace, "display") = 1
              THEN cards' = resetToStep(4) /\ currStep' = 4
              ELSE UNCHANGED <<cards, currStep>>
    /\ analyses' = RemoveAt(analyses, i)
    /\ loading' = "hidden"
    /\ analyzeButton' = updateAnalyzeButton(selectedSession)
    /\ UNCHANGED <<currentRound, selectedSession, checkedVizType, roundOptions, sessionGrid,
                   racesRequest, sessionRequests, vizRequests>>

\* performRealtimeAnalysis from the settling of the POST of analyses[i] to the end of
\* handleAnalyzeClick (part_002:227-286 and 438-454)
performRealtimeAnalysis(i, o) ==
    /\ i \in DOMAIN analyses
    /\ analyses[i].pc = "post"
    /\ LET r == realtimeTry(analyses[i], o)
       IN  /\ sentimentImage' = r.image
           /\ lastRealtimeVisualizations' = r.cache
           /\ ev' = Event("performRealtimeAnalysis", r.trace \o realtimeFinally)
    /\ analyses' = RemoveAt(analyses, i)
    /\ loading' = "hidden"
    /\ cards' = resetToStep(4)
    /\ currStep' = 4
    /\ analyzeButton' = updateAnalyzeButton(selectedSession)
    /\ UNCHANGED <<currentRound, selectedSession, checkedVizType, roundOptions, sessionGrid,
                   racesRequest, sessionRequests, vizRequests>>

\* ------------------------------------------------- visualization-type change
\* lastRealtimeVisualizations[selected] is a visualization
Cached(selected) ==
    /\ lastRealtimeVisualizations # None
    /\ selected \in lastRealtimeVisualizations[1].types

\* mutant: handleVizTypeChange without the cache lookup (lines 653-657 missing)
handleVizTypeChangeNoCache(t) ==
    /\ t \in VizTypes
    /\ t # checkedVizType
    /\ checkedVizType' = t
    /\ IF Falsy(currentRound) \/ Falsy(selectedSession)
       THEN /\ ev' = Event("handleVizTypeChange", <<>>)
            /\ UNCHANGED <<sentimentImage, vizRequests>>
       ELSE /\ Len(vizRequests) < MaxVizRequests
            /\ vizRequests' = Append(vizRequests,
                   [round |-> currentRound, session |-> selectedSession, type |-> t])
            /\ ev' = Event("handleVizTypeChange", <<Eff("fetch", <<"visualizations", currentRound, selectedSession, t>>)>>)
            /\ UNCHANGED sentimentImage
    /\ UNCHANGED <<currentRound, selectedSession, lastRealtimeVisualizations, analyzeButton,
                   roundOptions, sessionGrid, cards, currStep, loading, racesRequest,
                   sessionRequests, analyses>>

\* the change listener of a viz-type radio (part_002:393-398): the user checks the radio
\* of type t; handleVizTypeChange() up to its first await
handleVizTypeChange(t) ==
    /\ t \in VizTypes
    /\ t # checkedVizType
    /\ checkedVizType' = t
    /\ IF Cached(t)
       THEN LET b == lastRealtimeVisualizations[1]
                v == Visualization(t, b.round, b.session)
            IN  /\ sentimentImage' = Some(v)
                /\ ev' = Event("handleVizTypeChange", <<Display(v)>>)
                /\ UNCHANGED vizRequests
       ELSE IF Falsy(currentRound) \/ Falsy(selectedSession)
       THEN /\ ev' = Event("handleVizTypeChange", <<>>)
            /\ UNCHANGED <<sentimentImage, vizRequests>>
       ELSE /\ Len(vizRequests) < MaxVizRequests
            /\ vizRequests' = Append(vizRequests,
                   [round |-> currentRound, session |-> selectedSession, type |-> t])
            /\ ev' = Event("handleVizTypeChange", <<Eff("fetch", <<"visualizations", currentRound, selectedSession, t>>)>>)
            /\ UNCHANGED sentimentImage
    /\ UNCHANGED <<currentRound, selectedSession, lastRealtimeVisualizations, analyzeButton,
                   roundOptions, sessionGrid, cards, currStep, loading, racesRequest,
                   sessionRequests, analyses>>

\* the responses GET /visualizations/{round}/{session}?type={t} can get
VisualizationOutcomes(t) ==
    {TransportError(m) : m \in TransportMessages} \cup {HttpError, ParseError}
    \cup {Json(TRUE, TRUE, <<t>>, FALSE, Null, Null),
          Json(TRUE, TRUE, <<>>, FALSE, Null, Null),
          Json(TRUE, FALSE, <<>>, FALSE, Null, Null),
          Json(FALSE, FALSE, <<>>, FALSE, "boom", Null)}

\* data.success && data.visualizations && data.visualizations.length > 0
HasVisualization(o) == o.kind = "json" /\ o.success /\ o.hasData /\ Len(o.types) > 0

\* handleVizTypeChange() after the fetch of vizRequests[i] settled (part_002:663-678)
handleVizTypeChangeResponse(i, o) ==
    /\ i \in DOMAIN vizRequests
    /\ vizRequests' = RemoveAt(vizRequests, i)
    /\ LET q == vizRequests[i]
           v == Visualization(o.types[1], q.round, q.session)
           trace ==
             CASE o.kind = "http" ->
                    <<showToast(<<"Failed to fetch ", q.type, " visualization">>, "error")>>
               [] o.kind \in {"transport", "parse"} ->
                    <<showToast(<<"Error fetching ", q.type, " visualization">>, "error")>>
               [] HasVisualization(o) -> <<Display(v)>>
               [] OTHER ->
                    <<showToast(<<"No ", q.type, " visualization available for this session">>, "info")>>
       IN  /\ sentimentImage' = IF HasVisualization(o) THEN Some(v) ELSE sentimentImage
           /\ ev' = Event("handleVizTypeChangeResponse", trace)
    /\ UNCHANGED <<currentRound, selectedSession, checkedVizType, lastRealtimeVisualizations,
                   analyzeButton, roundOptions, sessionGrid, cards, currStep, loading,
                   racesRequest, sessionRequests, analyses>>

\* ---------------------------------------------------- part_002: the page
\* a task started by the user, and one started by a response or a timer
User(A) ==
    userEvents < MaxUserEvents /\ userEvents' = userEvents + 1 /\ UNCHANGED notifier /\ A
UserTs(A) ==
    userEvents < MaxUserEventsTs /\ userEvents' = userEvents + 1 /\ UNCHANGED notifier /\ A
Api(A) == UNCHANGED <<userEvents, notifier>> /\ A

Sessions == UNION {Range(SessionsOf(r)) : r \in Rounds}

Next ==
    \/ \E o \in RacesOutcomes : Api(loadRaces(o))
    \/ \E r \in Rounds \cup {Empty} : User(roundChange(r))
    \/ \E i \in 1..MaxSessionRequests, o \in SessionsOutcomes : Api(loadSessions(i, o))
    \/ \E s \in Sessions : User(sessionChange(s))
    \/ User(handleAnalyzeClick(Null))
    \/ \E i \in 1..MaxInflight, o \in RealtimeOutcomes : Api(performRealtimeAnalysis(i, o))
    \/ \E t \in VizTypes : User(handleVizTypeChange(t))
    \/ \E i \in 1..MaxVizRequests, t \in VizTypes : \E o \in VisualizationOutcomes(t) :
          /\ i \in DOMAIN vizRequests
          /\ vizRequests[i].type = t
          /\ Api(handleVizTypeChangeResponse(i, o))

Spec == Init /\ [][Next]_vars

\* ------------------------------------------------------ pollForVisualization
\* (part_002:622-648, the same text as app.ts:601-627)
\* A call of pollForVisualization: pc is the await it is suspended at ("fetch" at 628,
\* "httpDelay" at 631, "loopDelay" at 645), or "call" before it ran, or
\* "returnedTrue"/"returnedFalse"; attempt is the loop variable; fetches and delays
\* count the fetch() and setTimeout() calls made so far; allSoft says that every fetch
\* so far returned HTTP OK and success=true without a visualization
Poll(round, session, visType, intervalMs, maxAttempts) ==
    [pc |-> "call", round |-> round, session |-> session, visType |-> visType,
     intervalMs |-> intervalMs, maxAttempts |-> maxAttempts,
     attempt |-> 0, fetches |-> 0, delays |-> 0, allSoft |-> TRUE]

\* mutant: the loop test written attempt <= maxAttempts
pollLoopOffByOne(p) ==
    IF p.attempt <= p.maxAttempts
    THEN [p EXCEPT !.pc = "fetch", !.fetches = @ + 1]
    ELSE [p EXCEPT !.pc = "returnedFalse"]

\* mutant: the loop test written attempt < maxAttempts - 1
pollLoopSkipsLast(p) ==
    IF p.attempt < p.maxAttempts - 1
    THEN [p EXCEPT !.pc = "fetch", !.fetches = @ + 1]
    ELSE [p EXCEPT !.pc = "returnedFalse"]

\* the loop test of line 626, then the fetch of line 628 or the return of line 647
pollLoop(p) ==
    IF p.attempt < p.maxAttempts
    THEN [p EXCEPT !.pc = "fetch", !.fetches = @ + 1]
    ELSE [p EXCEPT !.pc = "returnedFalse"]

pollLoopTrace(p) ==
    IF p.attempt < p.maxAttempts
    THEN <<Eff("fetch", <<"visualizations", p.round, p.session, p.visType>>)>>
    ELSE <<>>

\* the call itself, up to its first await
pollForVisualization(p) == pollLoop(p)

\* HTTP OK, success=true and no visualization: "not yet available"
SoftUnavailable(o) == o.kind = "json" /\ o.success /\ Len(o.types) = 0

\* mutant: no return after displayVisualization (line 639 missing)
pollFetchSettledNoReturn(p, o) ==
    LET q == [p EXCEPT !.allSoft = @ /\ SoftUnavailable(o)]
    IN  CASE o.kind = "http" -> [q EXCEPT !.pc = "httpDelay", !.delays = @ + 1]
          [] OTHER -> [q EXCEPT !.pc = "loopDelay", !.delays = @ + 1]

\* lines 629-645 after the fetch settled with o
pollFetchSettled(p, o) ==
    LET q == [p EXCEPT !.allSoft = @ /\ SoftUnavailable(o)]
    IN  CASE o.kind = "http" -> [q EXCEPT !.pc = "httpDelay", !.delays = @ + 1]
          [] HasVisualization(o) -> [q EXCEPT !.pc = "returnedTrue"]
          [] OTHER -> [q EXCEPT !.pc = "loopDelay", !.delays = @ + 1]

pollFetchSettledTrace(p, o) ==
    CASE o.kind = "http" -> <<Eff("warn", <<"HTTP">>), Eff("delay", <<p.intervalMs>>)>>
      [] o.kind \in {"transport", "parse"} -> <<Eff("warn", <<o.msg>>), Eff("delay", <<p.intervalMs>>)>>
      [] HasVisualization(o) -> <<Display(Visualization(o.types[1], p.round, p.session))>>
      [] OTHER -> <<Eff("delay", <<p.intervalMs>>)>>

\* mutant: no continue after the delay of line 631 (line 632 missing), so the delay of
\* line 645 follows
pollTimerFiredNoContinue(p) ==
    IF p.pc = "httpDelay"
    THEN [p EXCEPT !.pc = "loopDelay", !.delays = @ + 1]
    ELSE pollLoop([p EXCEPT !.attempt = @ + 1])

\* mutant: the timer re-arms itself and the loop never goes on
pollTimerFiredRearms(p) == [p EXCEPT !.pc = "loopDelay"]

\* the timer of line 631 (then continue) or of line 645 fired: attempt++ and the loop test
pollTimerFired(p) == pollLoop([p EXCEPT !.attempt = @ + 1])
pollTimerFiredTrace(p) == pollLoopTrace([p EXCEPT !.attempt = @ + 1])

PollReturned(p) == p.pc \in {"returnedTrue", "returnedFalse"}

\* --------------------------------------------- pollForVisualization, alone
Intervals == {"0", "2000"}
\* a caller that only awaits the poll
Caller(p) == [pc |-> "poll", round |-> p.round, session |-> p.session, type |-> p.visType,
              poll |-> Some(p)]

InitPoll ==
    /\ currentRound \in Rounds
    /\ selectedSession \in Range(SessionsOf(currentRound))
    /\ checkedVizType \in VizTypes
    /\ lastRealtimeVisualizations = None
    /\ analyzeButton = [disabled |-> TRUE, textContent |-> <<"Processing real-time data...">>]
    /\ roundOptions = Rounds
    /\ sessionGrid = [sessions |-> SessionsOf(currentRound), checked |-> selectedSession]
    /\ sentimentImage = None
    /\ cards = resetToStep(2)
    /\ currStep = 2
    /\ loading = "shown"
    /\ racesRequest = "done"
    /\ sessionRequests = <<>>
    /\ vizRequests = <<>>
    /\ \E interval \in Intervals, max \in 0..MaxAttemptsBound :
          analyses = <<Caller(Poll(currentRound, selectedSession, checkedVizType, interval, max))>>
    /\ userEvents = 0
    /\ ev = Event("caller", <<>>)
    /\ notifier = NoToasts

PollFrame ==
    UNCHANGED <<currentRound, selectedSession, checkedVizType, lastRealtimeVisualizations,
                analyzeButton, roundOptions, sessionGrid, cards, currStep, loading,
                racesRequest, sessionRequests, vizRequests, userEvents, notifier>>

ThePoll == analyses[1].poll[1]
SetPoll(p) == analyses' = <<[analyses[1] EXCEPT !.poll = Some(p)]>>

PollCall ==
    /\ ThePoll.pc = "call"
    /\ SetPoll(pollForVisualization(ThePoll))
    /\ ev' = Event("pollForVisualization", pollLoopTrace(ThePoll))
    /\ UNCHANGED sentimentImage
    /\ PollFrame

PollFetchSettled(o) ==
    /\ ThePoll.pc = "fetch"
    /\ SetPoll(pollFetchSettled(ThePoll, o))
    /\ ev' = Event("pollFetchSettled", pollFetchSettledTrace(ThePoll, o))
    /\ sentimentImage' = IF pollFetchSettled(ThePoll, o).pc = "returnedTrue"
                         THEN Some(Visualization(o.types[1], ThePoll.round, ThePoll.session))
                         ELSE sentimentImage
    /\ PollFrame

PollTimerFired ==
    /\ ThePoll.pc \in {"httpDelay", "loopDelay"}
    /\ SetPoll(pollTimerFired(ThePoll))
    /\ ev' = Event("pollTimerFired", pollTimerFiredTrace(ThePoll))
    /\ UNCHANGED sentimentImage
    /\ PollFrame

NextPoll ==
    \/ PollCall
    \/ \E o \in VisualizationOutcomes(ThePoll.visType) : PollFetchSettled(o)
    \/ PollTimerFired

SpecPoll == InitPoll /\ [][NextPoll]_vars

\* ------------------------------------------------------------ app.ts: the page
\* { intervalMs: 2000, maxAttempts: 15 } of app.ts:244
PollIntervalMs == "2000"
PollMaxAttempts == 15
StillGenerating == <<"Still generating... try again shortly.">>

\* the responses POST /realtime-analysis/{round}/{session}?type={type} can get (app.ts):
\* hasData says that data.visualization is present
RealtimeOutcomesTs ==
    {TransportError(m) : m \in TransportMessages} \cup {HttpError, ParseError}
    \cup {Json(TRUE, TRUE, <<>>, FALSE, Null, Null),
          Json(TRUE, FALSE, <<>>, FALSE, Null, "still processing"),
          Json(TRUE, FALSE, <<>>, FALSE, Null, Null),
          Json(FALSE, FALSE, <<>>, FALSE, "boom", Null),
          Json(FALSE, FALSE, <<>>, FALSE, Null, Null)}

\* data.success, no data.visualization, data.warning: the branch of app.ts:241-245
StillProcessing(o) == o.kind = "json" /\ o.success /\ ~o.hasData /\ o.warning # Null

\* the finally block of performRealtimeAnalysis and the rest of handleAnalyzeClick,
\* for analyses[i] (app.ts:263-267 and 415-433)
finishAnalysis(i) ==
    /\ analyses' = RemoveAt(analyses, i)
    /\ loading' = "hidden"
    /\ cards' = resetToStep(4)
    /\ currStep' = 4
    /\ analyzeButton' = updateAnalyzeButton(selectedSession)

\* the try block of performRealtimeAnalysis (app.ts:229-251) after the POST of analysis a
\* settled with o, up to the call of pollForVisualization: the effects in order
realtimeTryTs(a, o) ==
    CASE o.kind = "transport" -> realtimeCatch(TRUE, o.msg)
      [] o.kind = "http" -> realtimeCatch(FALSE, "HTTP " \o o.msg)
      [] o.kind = "parse" -> realtimeCatch(FALSE, o.msg)
      [] o.kind = "json" /\ o.success /\ o.hasData ->
            <<Display(Visualization(a.type, a.round, a.session)),
              showToast(CompletedMessage(FALSE), "success")>>
      [] StillProcessing(o) -> <<showToast(<<o.warning>>, "info")>>
      [] o.kind = "json" /\ o.success -> <<>>
      [] OTHER -> <<showError(<<RealtimeFailed, ErrorOr(o, "Unknown error occurred")>>)>>

\* the poll app.ts:243-244 starts: current round and session, the type selected now
startedPoll ==
    pollForVisualization(Poll(currentRound, selectedSession, getSelectedVisualizationType,
                              PollIntervalMs, PollMaxAttempts))
startedPollTrace ==
    pollLoopTrace(Poll(currentRound, selectedSession, getSelectedVisualizationType,
                       PollIntervalMs, PollMaxAttempts))

\* mutant: the retry notice shown whatever the poll returned
afterPollAlways(p) == <<showToast(StillGenerating, "info")>>

\* the end of performRealtimeAnalysis after its poll returned (app.ts:245)
afterPoll(p) == IF p.pc = "returnedFalse" THEN <<showToast(StillGenerating, "info")>> ELSE <<>>

\* performRealtimeAnalysis from the settling of the POST of analyses[i] to its next
\* await or to the end of handleAnalyzeClick (app.ts:229-267 and 415-433)
performRealtimeAnalysisTs(i, o) ==
    /\ i \in DOMAIN analyses
    /\ analyses[i].pc = "post"
    /\ sentimentImage' = IF o.kind = "json" /\ o.success /\ o.hasData
                         THEN Some(Visualization(analyses[i].type, analyses[i].round,
                                                 analyses[i].session))
                         ELSE sentimentImage
    /\ IF StillProcessing(o) /\ ~PollReturned(startedPoll)
       THEN /\ analyses' = [analyses EXCEPT ![i].pc = "poll", ![i].poll = Some(startedPoll)]
            /\ ev' = Event("performRealtimeAnalysis",
                           realtimeTryTs(analyses[i], o) \o startedPollTrace)
            /\ UNCHANGED <<loading, cards, currStep, analyzeButton>>
       ELSE /\ finishAnalysis(i)
            /\ ev' = Event("performRealtimeAnalysis",
                           realtimeTryTs(analyses[i], o)
                           \o (IF StillProcessing(o) THEN afterPoll(startedPoll) ELSE <<>>)
                           \o realtimeFinally)
    /\ UNCHANGED <<currentRound, selectedSession, checkedVizType, lastRealtimeVisualizations,
                   roundOptions, sessionGrid, racesRequest, sessionRequests, vizRequests>>

\* the poll of analyses[i] moved to p by a task with the effects trace; when the poll
\* returned, performRealtimeAnalysis goes on to its end in the same task
pollTask(i, op, p, trace) ==
    /\ IF PollReturned(p)
       THEN /\ finishAnalysis(i)
            /\ ev' = Event(op, trace \o afterPoll(p) \o realtimeFinally)
       ELSE /\ analyses' = [analyses EXCEPT ![i].poll = Some(p)]
            /\ ev' = Event(op, trace)
            /\ UNCHANGED <<loading, cards, currStep, analyzeButton>>
    /\ UNCHANGED <<currentRound, selectedSession, checkedVizType, lastRealtimeVisualizations,
                   roundOptions, sessionGrid, racesRequest, sessionRequests, vizRequests>>

\* the fetch of the poll of analyses[i] settled with o
pollFetchSettledTs(i, o) ==
    /\ i \in DOMAIN analyses
    /\ analyses[i].pc = "poll"
    /\ analyses[i].poll[1].pc = "fetch"
    /\ LET p == analyses[i].poll[1]
       IN  /\ sentimentImage' = IF HasVisualization(o)
                                THEN Some(Visualization(o.types[1], p.round, p.session))
                                ELSE sentimentImage
           /\ pollTask(i, "pollFetchSettled", pollFetchSettled(p, o), pollFetchSettledTrace(p, o))

\* the timer of the poll of analyses[i] fired
pollTimerFiredTs(i) ==
    /\ i \in DOMAIN analyses
    /\ analyses[i].pc = "poll"
    /\ analyses[i].poll[1].pc \in {"httpDelay", "loopDelay"}
    /\ UNCHANGED sentimentImage
    /\ LET p == analyses[i].poll[1]
       IN  pollTask(i, "pollTimerFired", pollTimerFired(p), pollTimerFiredTrace(p))

\* the user checks the viz-type radio of type t: app.ts attaches no listener to it
vizTypeChangeTs(t) ==
    /\ t \in VizTypes
    /\ t # checkedVizType
    /\ checkedVizType' = t
    /\ ev' = Event("vizTypeChange", <<>>)
    /\ UNCHANGED <<currentRound, selectedSession, lastRealtimeVisualizations, analyzeButton,
                   roundOptions, sessionGrid, sentimentImage, cards, currStep, loading,
                   racesRequest, sessionRequests, vizRequests, analyses>>

NextTs ==
    \/ \E o \in RacesOutcomes : Api(loadRaces(o))
    \/ \E r \in Rounds \cup {Empty} : UserTs(roundChange(r))
    \/ \E i \in 1..MaxSessionRequests, o \in SessionsOutcomes : Api(loadSessions(i, o))
    \/ \E s \in Sessions : UserTs(sessionChange(s))
    \/ UserTs(handleAnalyzeClick(getSelectedVisualizationType))
    \/ \E i \in 1..MaxInflight, o \in RealtimeOutcomesTs : Api(performRealtimeAnalysisTs(i, o))
    \/ \E i \in 1..MaxInflight, t \in VizTypes : \E o \in VisualizationOutcomes(t) :
          /\ i \in DOMAIN analyses
          /\ analyses[i].pc = "poll"
          /\ analyses[i].poll[1].visType = t
          /\ Api(pollFetchSettledTs(i, o))
    \/ \E i \in 1..MaxInflight : Api(pollTimerFiredTs(i))
    \/ \E t \in VizTypes : UserTs(vizTypeChangeTs(t))

SpecTs == Init /\ [][NextTs]_vars

\* SpecTs when every visualizations fetch of a poll settles and every timer of a poll
\* fires: the responses and the timers are tasks the browser runs once they are due
SpecTsLive ==
    /\ SpecTs
    /\ \A i \in 1..MaxInflight :
          /\ WF_vars(Api(pollTimerFiredTs(i)))
          /\ WF_vars(\E t \in VizTypes : \E o \in VisualizationOutcomes(t) :
                        /\ i \in DOMAIN analyses
                        /\ analyses[i].pc = "poll"
                        /\ analyses[i].poll[1].visType = t
                        /\ Api(pollFetchSettledTs(i, o)))

\* ------------------------------------ analyzeSentiment, its non-realtime branch
\* analyzeSentiment() past the test of isRealtimeMode (part_002:158-199).  The flag
\* is set to true at part_002:36 and assigned nowhere, so the page as written never
\* runs these lines; SpecDirect is the page with the flag false.
DirectFailed == "Analysis failed: "
NoVisualizations ==
    "No visualizations available for this session. Either nothing was found for this round & session or it hasn't happened yet."

\* the try and catch blocks (part_002:168-196) after the GET of analysis a settled with o
directTry(a, o) ==
    CASE o.kind = "transport" -> <<showError(<<DirectFailed, o.msg>>)>>
      [] o.kind = "http" -> <<showError(<<DirectFailed, "HTTP " \o o.msg>>)>>
      [] o.kind = "parse" -> <<showError(<<DirectFailed, o.msg>>)>>
      [] HasVisualization(o) -> <<Display(Visualization(o.types[1], a.round, a.session))>>
      [] OTHER -> <<showError(<<DirectFailed, NoVisualizations>>)>>

\* the finally block (part_002:196-199), then the rest of handleAnalyzeClick
directFinally ==
    <<Enable, Eff("updateAnalyzeButton", <<>>), Eff("resetToStep", <<"4">>), Enable,
      Eff("updateAnalyzeButton", <<>>)>>

\* handleAnalyzeClick up to the first await of the non-realtime branch
handleAnalyzeClickDirect ==
    IF analyzeButton.disabled
    THEN /\ ev' = Event("handleAnalyzeClick", <<>>)
         /\ UNCHANGED <<currentRound, selectedSession, checkedVizType,
                        lastRealtimeVisualizations, analyzeButton, roundOptions, sessionGrid,
                        sentimentImage, cards, currStep, loading, racesRequest,
                        sessionRequests, vizRequests, analyses>>
    ELSE IF Falsy(selectedSession) \/ Falsy(currentRound)
    THEN /\ analyzeButton' = [analyzeButton EXCEPT !.disabled = FALSE]
         /\ ev' = Event("handleAnalyzeClick", <<Disable, showToast(ValidationMessage, "error"), Enable>>)
         /\ UNCHANGED <<currentRound, selectedSession, checkedVizType,
                        lastRealtimeVisualizations, roundOptions, sessionGrid,
                        sentimentImage, cards, currStep, loading, racesRequest,
                        sessionRequests, vizRequests, analyses>>
    ELSE /\ Len(analyses) < MaxInflight
         /\ analyzeButton' = [disabled |-> TRUE, textContent |-> <<"analyzing..">>]
         /\ analyses' = Append(analyses, [Analysis(currentRound, selectedSession,
                                                   getSelectedVisualizationType)
                                          EXCEPT !.pc = "get"])
         /\ ev' = Event("handleAnalyzeClick",
                        <<Disable, Disable,
                          Eff("fetch", <<"visualizations", currentRound, selectedSession,
                                         getSelectedVisualizationType>>)>>)
         /\ UNCHANGED <<currentRound, selectedSession, checkedVizType,
                        lastRealtimeVisualizations, roundOptions, sessionGrid,
                        sentimentImage, cards, currStep, loading, racesRequest,
                        sessionRequests, vizRequests>>

\* analyzeSentiment from the settling of the GET of analyses[i] to the end of
\* handleAnalyzeClick (part_002:170-199 and 438-454)
analyzeSentimentDirect(i, o) ==
    /\ i \in DOMAIN analyses
    /\ analyses[i].pc = "get"
    /\ sentimentImage' = IF HasVisualization(o)
                         THEN Some(Visualization(o.types[1], analyses[i].round,
                                                 analyses[i].session))
                         ELSE sentimentImage
    /\ ev' = Event("analyzeSentiment", directTry(analyses[i], o) \o directFinally)
    /\ analyses' = RemoveAt(analyses, i)
    /\ cards' = resetToStep(4)
    /\ currStep' = 4
    /\ analyzeButton' = updateAnalyzeButton(selectedSession)
    /\ UNCHANGED <<currentRound, selectedSession, checkedVizType, lastRealtimeVisualizations,
                   roundOptions, sessionGrid, loading, racesRequest, sessionRequests,
                   vizRequests>>

NextDirect ==
    \/ \E o \in RacesOutcomes : Api(loadRaces(o))
    \/ \E r \in Rounds \cup {Empty} : User(roundChange(r))
    \/ \E i \in 1..MaxSessionRequests, o \in SessionsOutcomes : Api(loadSessions(i, o))
    \/ \E s \in Sessions : User(sessionChange(s))
    \/ User(handleAnalyzeClickDirect)
    \/ \E i \in 1..MaxInflight, t \in VizTypes : \E o \in VisualizationOutcomes(t) :
          /\ i \in DOMAIN analyses
          /\ analyses[i].type = t
          /\ Api(analyzeSentimentDirect(i, o))
    \/ \E t \in VizTypes : User(handleVizTypeChange(t))
    \/ \E i \in 1..MaxVizRequests, t \in VizTypes : \E o \in VisualizationOutcomes(t) :
          /\ i \in DOMAIN vizRequests
          /\ vizRequests[i].type = t
          /\ Api(handleVizTypeChangeResponse(i, o))

SpecDirect == Init /\ [][NextDirect]_vars

\* ------------------------------------------------------- resetToStep, alone
\* resetToStep(step) as a function of the cards that are visible before it
\* (part_002:550-576): three hideCard calls, the showCard calls of the case, then
\* updateProgress.  #round-selection is touched by no hideCard or showCard call.
Panels == <<"round-selection", "session-selection", "visualization-selection", "results-card">>
Steps == 1..Len(Panels)
StepName(n) == <<"1", "2", "3", "4">>[n]
hideCard(visible, cardId) == visible \ {cardId}
showCard(visible, cardId) == visible \cup {cardId}
\* updateProgress(step): the value it leaves in currStep
updateProgress(step) == step

\* mutant: the cards are not hidden first
resetToStepFromNoHide(visible, step) ==
    CASE step = 1 -> visible
      [] step = 2 -> showCard(visible, "session-selection")
      [] step = 3 -> showCard(showCard(visible, "session-selection"), "visualization-selection")
      [] step = 4 -> showCard(showCard(showCard(visible, "session-selection"),
                                       "visualization-selection"), "results-card")

resetToStepFrom(visible, step) ==
    LET hidden == hideCard(hideCard(hideCard(visible, "session-selection"),
                                    "visualization-selection"), "results-card")
    IN  CASE step = 1 -> hidden
          [] step = 2 -> showCard(hidden, "session-selection")
          [] step = 3 -> showCard(showCard(hidden, "session-selection"), "visualization-selection")
          [] step = 4 -> showCard(showCard(showCard(hidden, "session-selection"),
                                           "visualization-selection"), "results-card")

\* the visible cards in the order of the page
VisibleSeq(visible) == SelectSeq(Panels, LAMBDA c : c \in visible)

InitReset ==
    /\ currentRound = Null
    /\ selectedSession = Null
    /\ checkedVizType = Null
    /\ lastRealtimeVisualizations = None
    /\ analyzeButton = updateAnalyzeButton(Null)
    /\ roundOptions = Rounds
    /\ sessionGrid = [sessions |-> <<>>, checked |-> Null]
    /\ sentimentImage = None
    /\ cards \in SUBSET {Panels[k] : k \in 2..Len(Panels)}
    /\ currStep \in Steps
    /\ loading = "absent"
    /\ racesRequest = "done"
    /\ sessionRequests = <<>>
    /\ vizRequests = <<>>
    /\ analyses = <<>>
    /\ userEvents = 0
    /\ ev = Event("load", <<>>)
    /\ notifier = NoToasts

\* one call resetToStep(n); the history keeps the step and the cards before the call
ResetToStep(n) ==
    /\ userEvents < MaxResets
    /\ userEvents' = userEvents + 1
    /\ cards' = resetToStepFrom(cards, n)
    /\ currStep' = updateProgress(n)
    /\ ev' = Event("resetToStep", <<Eff("before", <<StepName(currStep)>> \o VisibleSeq(cards)),
                                    Eff("resetToStep", <<StepName(n)>>)>>)
    /\ UNCHANGED <<currentRound, selectedSession, checkedVizType, lastRealtimeVisualizations,
                   analyzeButton, roundOptions, sessionGrid, sentimentImage, loading,
                   racesRequest, sessionRequests, vizRequests, analyses, notifier>>

NextReset == \E n \in Steps : ResetToStep(n)

SpecReset == InitReset /\ [][NextReset]_vars

\* ------------------------------------------------------------ showToast, alone
\* (part_002:471-482, the same text as app.ts:450-461)
\* notifier.children are the toast elements of #toast-container in document order,
\* each [id, kind, message]; notifier.timers are the pending timers of line 479 in
\* the order they were set, each [id, remaining] with the milliseconds left before
\* it is due.
ToastLifetimeMs == 5000
ToastKinds == {"success", "error", "info"}
ToastTexts == {<<"Please select a session first!">>, <<"Error loading sessions">>}

\* the page has an element with the id toast-container (line 476 finds it)
ToastContainerPresent == TRUE

Max(a, b) == IF a >= b THEN a ELSE b

\* mutant: the container shows the newest toast only
appendToastReplaces(n, message, kind) ==
    LET id == n.raised + 1
    IN  [n EXCEPT !.children = <<[id |-> id, kind |-> kind, message |-> message]>>,
                  !.timers = Append(@, [id |-> id, remaining |-> ToastLifetimeMs]),
                  !.raised = id]

\* lines 472-481: the element, container?.appendChild(toast), setTimeout(..., 5000)
appendToast(n, message, kind) ==
    LET id == n.raised + 1
    IN  [n EXCEPT !.children = IF ToastContainerPresent
                               THEN Append(@, [id |-> id, kind |-> kind, message |-> message])
                               ELSE @,
                  !.timers = Append(@, [id |-> id, remaining |-> ToastLifetimeMs]),
                  !.raised = id]

\* line 480 in the task of the timer that is due first: toast.remove() detaches its own
\* element, and does nothing to an element that is not attached
toastRemove(n) ==
    LET id == Head(n.timers).id
    IN  [n EXCEPT !.children = SelectSeq(@, LAMBDA c : c.id # id),
                  !.timers = Tail(@),
                  !.removed = IF \E k \in DOMAIN n.children : n.children[k].id = id
                              THEN Append(@, id) ELSE @]

\* d milliseconds pass
elapse(n, d) ==
    [n EXCEPT !.timers = [k \in DOMAIN @ |-> [@[k] EXCEPT !.remaining = Max(0, @ - d)]]]

ToastFrame ==
    UNCHANGED <<currentRound, selectedSession, checkedVizType, lastRealtimeVisualizations,
                analyzeButton, roundOptions, sessionGrid, sentimentImage, cards, currStep,
                loading, racesRequest, sessionRequests, vizRequests, analyses, userEvents>>

\* a task of the page calls showToast(message, kind)
ShowToast(message, kind) ==
    /\ notifier.raised < MaxToasts
    /\ notifier' = appendToast(notifier, message, kind)
    /\ ev' = Event("showToast", <<showToast(message, kind)>>)
    /\ ToastFrame

\* the timer set first is due and its task runs: timers of one delay run in the order
\* they were set
ToastTimerFired ==
    /\ notifier.timers # <<>>
    /\ Head(notifier.timers).remaining = 0
    /\ notifier' = toastRemove(notifier)
    /\ ev' = Event("toastTimer", <<>>)
    /\ ToastFrame

\* time passes while some timer is not yet due
TimePasses ==
    /\ \E k \in DOMAIN notifier.timers : notifier.timers[k].remaining > 0
    /\ \E d \in {ToastLifetimeMs \div 2, ToastLifetimeMs} : notifier' = elapse(notifier, d)
    /\ UNCHANGED ev
    /\ ToastFrame

NextToast ==
    \/ \E message \in ToastTexts, kind \in ToastKinds : ShowToast(message, kind)
    \/ ToastTimerFired
    \/ TimePasses

\* time passes and every timer that is due runs
SpecToast == Init /\ [][NextToast]_vars /\ WF_vars(ToastTimerFired) /\ WF_vars(TimePasses)

\* =========================================================================
\* Claims
\* =========================================================================
InFlight == analyses # <<>>
\* the task just run started an analyze action / rejected the click / ended an action
ClickStarted == ev.op = "handleAnalyzeClick" /\ Count(ev.trace, "fetch") = 1
ClickRejected == ev.op = "handleAnalyzeClick" /\ Toasts(ev.trace) # <<>>
ActionEnded == Count(ev.trace, "hideRealtimeLoadingState") = 1

\* C1: an analyze action disables the trigger control before anything else, the control
\* stays disabled while the action is in flight and is enabled again when the action
\* ends, on every path (validation rejection included).
C1_DisabledThenReenabledAtEnd ==
    /\ (ClickStarted \/ ClickRejected) => ev.trace[1] = Disable
    /\ ClickStarted => analyzeButton.disabled
    /\ InFlight => analyzeButton.disabled
    /\ (ClickRejected \/ ActionEnded) => ~analyzeButton.disabled

\* C2: at most one analyze action is in flight, the trigger control is disabled while
\* one is, and a click on the disabled control changes nothing and issues no request.
C2_AtMostOneInFlight ==
    [][/\ Len(analyses') <= 1
       /\ analyses' # <<>> => analyzeButton'.disabled
       /\ (handleAnalyzeClick(Null) /\ analyzeButton.disabled) =>
             UNCHANGED <<currentRound, selectedSession, checkedVizType,
                         lastRealtimeVisualizations, analyzeButton, roundOptions,
                         sessionGrid, sentimentImage, cards, currStep, loading,
                         racesRequest, sessionRequests, vizRequests, analyses>>]_vars

\* C3: a round change clears selectedSession and the cached realtime batch, and does so
\* before it requests the session list of the new round.
C3_RoundChangeClears ==
    ev.op = "roundChange" =>
        /\ selectedSession = Null
        /\ lastRealtimeVisualizations = None
        /\ \A k \in DOMAIN ev.trace :
              ev.trace[k].e = "fetch" =>
                 \E j \in 1..(k - 1) : ev.trace[j].e = "clearSession"

\* C4: pollForVisualization never issues more than maxAttempts fetches; when every
\* fetch returned success without a visualization and the poll has returned, it issued
\* exactly maxAttempts fetches and returned false.
C4_AtMostMaxAttempts ==
    /\ ThePoll.fetches <= ThePoll.maxAttempts
    /\ (PollReturned(ThePoll) /\ ThePoll.allSoft) =>
          /\ ThePoll.pc = "returnedFalse"
          /\ ThePoll.fetches = ThePoll.maxAttempts

C4_Witness ==
    /\ ThePoll.pc = "returnedFalse"
    /\ ThePoll.allSoft
    /\ ThePoll.maxAttempts = 3
    /\ ThePoll.fetches = 3
    /\ ThePoll.intervalMs = "0"

\* C5 as stated: pollForVisualization never returns before it made a fetch, for every
\* maxAttempts.
C5_AtLeastOneAttempt == PollReturned(ThePoll) => ThePoll.fetches >= 1

\* C5 amended: called with maxAttempts >= 1, pollForVisualization never returns before
\* it made a fetch.
C5_AtLeastOneAttemptWhenPositive ==
    (PollReturned(ThePoll) /\ ThePoll.maxAttempts >= 1) => ThePoll.fetches >= 1

C5_Witness == ThePoll.pc = "returnedFalse" /\ ThePoll.maxAttempts = 1 /\ ThePoll.fetches = 1

\* C6: the poll stops at the first fetch that is HTTP OK with success=true and a
\* visualization: that task displays the first visualization of the response and
\* returns true without a further fetch or delay, and a returned poll does nothing more.
C6_StopsAtFirstFound ==
    [][/\ \A o \in VisualizationOutcomes(ThePoll.visType) :
            (PollFetchSettled(o) /\ HasVisualization(o)) =>
               /\ ThePoll'.pc = "returnedTrue"
               /\ sentimentImage' = Some(Visualization(o.types[1], ThePoll.round, ThePoll.session))
               /\ ThePoll'.fetches = ThePoll.fetches
               /\ ThePoll'.delays = ThePoll.delays
               /\ Count(ev'.trace, "fetch") = 0
               /\ Count(ev'.trace, "delay") = 0
       /\ PollReturned(ThePoll) => UNCHANGED <<analyses, sentimentImage>>]_vars

C6_Witness ==
    /\ ThePoll.pc = "returnedTrue"
    /\ ThePoll.fetches = 2
    /\ ThePoll.maxAttempts = 3
    /\ sentimentImage = Some(Visualization(ThePoll.visType, ThePoll.round, ThePoll.session))

\* C7: a transport error or a non-OK status on an attempt does not end the poll and
\* raises no notification: exactly one delay of intervalMs follows, as after a
\* success without visualization, and when the delay is over the next attempt (if one
\* is left) is made without another delay.
C7_FailedAttemptGoesOn ==
    [][/\ \A o \in VisualizationOutcomes(ThePoll.visType) :
            (PollFetchSettled(o) /\ ~HasVisualization(o)) =>
               /\ ThePoll'.pc \in {"httpDelay", "loopDelay"}
               /\ ThePoll'.delays = ThePoll.delays + 1
               /\ ThePoll'.fetches = ThePoll.fetches
               /\ Toasts(ev'.trace) = <<>>
               /\ SelectSeq(ev'.trace, LAMBDA x : x.e = "delay")
                     = <<Eff("delay", <<ThePoll.intervalMs>>)>>
       /\ PollTimerFired =>
               /\ ThePoll'.delays = ThePoll.delays
               /\ ThePoll'.attempt = ThePoll.attempt + 1
               /\ IF ThePoll.attempt + 1 < ThePoll.maxAttempts
                  THEN ThePoll'.pc = "fetch" /\ ThePoll'.fetches = ThePoll.fetches + 1
                  ELSE ThePoll'.pc = "returnedFalse" /\ ThePoll'.fetches = ThePoll.fetches]_vars

\* the second attempt was made after a failed first one and failed with a non-OK status
C7_Witness ==
    /\ ThePoll.pc = "httpDelay"
    /\ ThePoll.fetches = 2
    /\ ThePoll.delays = 2
    /\ ~ThePoll.allSoft
    /\ Toasts(ev.trace) = <<>>

\* C8: a success=true response with a warning and no visualization shows the warning,
\* then starts one poll for the current round and session and the type selected at
\* that moment, and the trigger control stays disabled until that poll has finished.
C8_PollsOnceBeforeIdle ==
    [][/\ \A i \in 1..MaxInflight, o \in RealtimeOutcomesTs :
            (performRealtimeAnalysisTs(i, o) /\ StillProcessing(o)) =>
               /\ ev'.trace = <<showToast(<<o.warning>>, "info"),
                                Eff("fetch", <<"visualizations", currentRound, selectedSession,
                                               getSelectedVisualizationType>>)>>
               /\ Len(analyses') = Len(analyses)
               /\ analyses'[i].pc = "poll"
               /\ analyses'[i].poll[1].round = currentRound
               /\ analyses'[i].poll[1].session = selectedSession
               /\ analyses'[i].poll[1].visType = getSelectedVisualizationType
               /\ analyses'[i].poll[1].fetches = 1
       /\ \A i \in DOMAIN analyses : analyses[i].pc = "poll" => analyzeButton.disabled]_vars

\* C9: when the poll started after 'still processing' finds a visualization, it is
\* displayed and no notification is raised; when the poll is exhausted, exactly one
\* notification is raised, the retry notice, of kind info; no other task of the poll
\* raises a notification.
C9_PollOutcomeNotices ==
    [][/\ \A i \in DOMAIN analyses, t \in VizTypes : \A o \in VisualizationOutcomes(t) :
            (/\ analyses[i].pc = "poll"
             /\ analyses[i].poll[1].visType = t
             /\ pollFetchSettledTs(i, o)) =>
               IF HasVisualization(o)
               THEN /\ sentimentImage' = Some(Visualization(o.types[1], analyses[i].poll[1].round,
                                                            analyses[i].poll[1].session))
                    /\ Toasts(ev'.trace) = <<>>
                    /\ Len(analyses') = Len(analyses) - 1
               ELSE /\ Toasts(ev'.trace) = <<>>
                    /\ UNCHANGED sentimentImage
       /\ \A i \in DOMAIN analyses :
            (analyses[i].pc = "poll" /\ pollTimerFiredTs(i)) =>
               IF analyses[i].poll[1].attempt + 1 >= analyses[i].poll[1].maxAttempts
               THEN /\ Toasts(ev'.trace) = <<showToast(StillGenerating, "info")>>
                    /\ ToastsOfKind(ev'.trace, "error") = <<>>
                    /\ Len(analyses') = Len(analyses) - 1
                    /\ UNCHANGED sentimentImage
               ELSE Toasts(ev'.trace) = <<>>]_vars

\* the poll was exhausted after PollMaxAttempts fetches and the retry notice raised
C9_Witness ==
    /\ ev.op = "pollTimerFired"
    /\ ActionEnded
    /\ Toasts(ev.trace) = <<showToast(StillGenerating, "info")>>
    /\ analyses = <<>>

\* C10: when an immediate realtime result holds a visualization of the type selected
\* when the response is handled, exactly that visualization is displayed and the only
\* notification is the success notice (no substitution notice).
C10_SelectedTypeDisplayed ==
    [][\A i \in DOMAIN analyses, o \in RealtimeOutcomes :
          (/\ performRealtimeAnalysis(i, o)
           /\ o.kind = "json" /\ o.success /\ o.hasData
           /\ getSelectedVisualizationType \in Range(o.types)) =>
             /\ sentimentImage' = Some(Visualization(getSelectedVisualizationType,
                                                     analyses[i].round, analyses[i].session))
             /\ Count(ev'.trace, "display") = 1
             /\ ToastsOfKind(ev'.trace, "info") = <<>>
             /\ Toasts(ev'.trace) = <<showToast(CompletedMessage(o.stats), "success")>>]_vars

\* the response {timeline, wordcloud} handled with wordcloud selected
C10_Witness ==
    /\ ev.op = "performRealtimeAnalysis"
    /\ checkedVizType = "wordcloud"
    /\ lastRealtimeVisualizations # None
    /\ lastRealtimeVisualizations[1].types = {"timeline", "wordcloud"}
    /\ sentimentImage = Some(Visualization("wordcloud", lastRealtimeVisualizations[1].round,
                                           lastRealtimeVisualizations[1].session))
    /\ Count(ev.trace, "display") = 1
    /\ Len(Toasts(ev.trace)) = 1

\* C11: when an immediate realtime result (success with a visualizations object) does
\* not hold the selected type, the visualization of the first listed type is displayed
\* and exactly one substitution notice, naming the selected and the first type, is raised.
C11_FirstListedSubstituted ==
    [][\A i \in DOMAIN analyses, o \in RealtimeOutcomes :
          (/\ performRealtimeAnalysis(i, o)
           /\ o.kind = "json" /\ o.success /\ o.hasData
           /\ getSelectedVisualizationType \notin Range(o.types)) =>
             IF o.types = <<>>
             THEN FALSE
             ELSE /\ sentimentImage' = Some(Visualization(o.types[1], analyses[i].round,
                                                          analyses[i].session))
                  /\ Count(ev'.trace, "display") = 1
                  /\ ToastsOfKind(ev'.trace, "info")
                        = <<showToast(SubstitutionMessage(getSelectedVisualizationType,
                                                          o.types[1]), "info")>>
                  /\ ToastsOfKind(ev'.trace, "error") = <<>>]_vars

\* C12: a visualization fetch answered HTTP OK, success=true with an empty
\* visualizations list raises no notification of kind error and does not end its
\* caller with an exception, at each site that issues one: the visualization-type
\* change handler, the non-realtime analyze path and the poller.
C12_EmptyIsSoft ==
    [][/\ \A i \in DOMAIN vizRequests, t \in VizTypes : \A o \in VisualizationOutcomes(t) :
            (/\ vizRequests[i].type = t
             /\ SoftUnavailable(o) /\ o.hasData
             /\ handleVizTypeChangeResponse(i, o)) =>
                ToastsOfKind(ev'.trace, "error") = <<>>
       /\ \A i \in DOMAIN analyses, t \in VizTypes : \A o \in VisualizationOutcomes(t) :
            (/\ analyses[i].type = t
             /\ SoftUnavailable(o) /\ o.hasData
             /\ analyzeSentimentDirect(i, o)) =>
                ToastsOfKind(ev'.trace, "error") = <<>>
       /\ \A t \in VizTypes : \A o \in VisualizationOutcomes(t) :
            (SoftUnavailable(o) /\ o.hasData) =>
                LET p == pollForVisualization(Poll(currentRound, selectedSession, t,
                                                   PollIntervalMs, PollMaxAttempts))
                IN  /\ pollFetchSettled(p, o).pc = "loopDelay"
                    /\ ToastsOfKind(pollFetchSettledTrace(p, o), "error") = <<>>]_vars

\* C13: in every reachable state the visible cards form a prefix of round-selection,
\* session-selection, visualization-selection, results-card (round-selection is never
\* hidden): a card is visible only if the one before it is, and in step 1 every later
\* card is hidden.
C13_PanelsFormPrefix ==
    /\ cards \subseteq {Panels[k] : k \in 2..Len(Panels)}
    /\ \A k \in 3..Len(Panels) : Panels[k] \in cards => Panels[k - 1] \in cards
    /\ currStep = 1 => cards = {}
    /\ cards = {Panels[k] : k \in 2..currStep}

\* back in step 1 after an analysis had reached step 4 and displayed a visualization
C13_Witness ==
    /\ ev.op = "roundChange"
    /\ currStep = 1
    /\ cards = {}
    /\ sentimentImage # None
    /\ analyses = <<>>

\* C14: resetToStep(N), for N in 1..4 and from every step and card visibility, leaves
\* exactly the cards 1..N visible and currStep = N, and applying it again with the
\* same N changes neither.
C14_ResetToStepExactAndIdempotent ==
    [][\A n \in Steps :
          ResetToStep(n) =>
             /\ cards' = {Panels[k] : k \in 2..n}
             /\ currStep' = n
             /\ resetToStepFrom(cards', n) = cards'
             /\ (ev.op = "resetToStep" /\ ev.trace[2].arg = <<StepName(n)>>) =>
                   (cards' = cards /\ currStep' = currStep)]_vars

\* resetToStep(3) applied twice in a row
C14_Witness ==
    /\ ev.op = "resetToStep"
    /\ userEvents = 2
    /\ ev.trace[1].arg = <<"3", "session-selection", "visualization-selection">>
    /\ ev.trace[2].arg = <<"3">>
    /\ currStep = 3
    /\ cards = {"session-selection", "visualization-selection"}

\* C15: when an analyze action ends, on whatever path (validation rejection, failure,
\* success), the trigger control is what updateAnalyzeButton() computes from the
\* selection: enabled and labelled with the session iff a session is selected.
C15_ButtonRecomputedAtExit ==
    (ClickRejected \/ ActionEnded) => analyzeButton = updateAnalyzeButton(selectedSession)

\* C16: when an analyze action starts, the cached realtime batch is absent at the
\* moment the realtime-analysis request is issued.
C16_CacheClearedAtStart == ClickStarted => lastRealtimeVisualizations = None

C18_SuccessEndsInStepFour ==
    [][\A i \in DOMAIN analyses, o \in RealtimeOutcomes :
          (performRealtimeAnalysis(i, o) /\ Count(ev'.trace, "display") = 1) =>
             /\ currStep' = 4
             /\ "results-card" \in cards'
             /\ cards' = {Panels[k] : k \in 2..4}]_vars

\* an analysis ended with a visualization displayed, after the user had gone back to step 2
C18_Witness ==
    /\ ev.op = "performRealtimeAnalysis"
    /\ Count(ev.trace, "display") = 1
    /\ Len(Toasts(ev.trace)) = 2
    /\ sentimentImage # None
    /\ currStep = 4
    /\ "results-card" \in cards

\* C19: a change of the round dropdown to a non-empty round leaves step 2 with only
\* the session card (of the later cards) visible; a change to the empty option leaves
\* step 1 with no later card visible, an empty session grid, no selected session and a
\* disabled trigger control.
C19_RoundChangeSteps ==
    [][\A r \in Rounds \cup {Empty} :
          roundChange(r) =>
             IF r # Empty
             THEN currStep' = 2 /\ cards' = {"session-selection"}
             ELSE /\ currStep' = 1
                  /\ cards' = {}
                  /\ sessionGrid' = [sessions |-> <<>>, checked |-> Null]
                  /\ selectedSession' = Null
                  /\ analyzeButton'.disabled]_vars

\* the round cleared while a session was selected and the control enabled before
C19_Witness ==
    /\ ev.op = "roundChange"
    /\ currentRound = Empty
    /\ Count(ev.trace, "clearSession") = 1
    /\ selectedSession = Null
    /\ analyzeButton = updateAnalyzeButton(Null)
    /\ sessionGrid.sessions = <<>>
    /\ roundOptions = Rounds
    /\ userEvents >= 3

\* the notifications of trace hold the text s
Carries(trace, s) ==
    \E k \in DOMAIN trace :
       /\ trace[k].e = "toast"
       /\ \E j \in DOMAIN trace[k].arg : trace[k].arg[j] \in {s, "HTTP " \o s}

\* the failure o is shown as C20 says: status code and text for a non-OK status, the
\* payload's error string for success=false
FailureShown(o, trace) ==
    /\ o.kind = "http" => Carries(trace, o.msg)
    /\ (o.kind = "json" /\ ~o.success /\ o.error # Null) => Carries(trace, o.error)
    /\ o.kind = "transport" => (Toasts(trace) # <<>> /\ ~Carries(trace, HttpError.msg))

\* C20: for load races, load sessions, realtime analysis and the visualization fetch, a
\* non-OK status is shown with its status code and text, success=false with the
\* payload's error string and a transport failure with a connection-failure message,
\* the three being different notifications.
C20_FailuresDistinct ==
    [][/\ \A o \in RacesOutcomes : loadRaces(o) =>
            /\ FailureShown(o, ev'.trace)
            /\ o.kind = "http" => \A m \in TransportMessages :
                                     ev'.trace # loadRacesTrace(TransportError(m))
       /\ \A i \in DOMAIN sessionRequests, o \in SessionsOutcomes :
            loadSessions(i, o) => FailureShown(o, ev'.trace)
       /\ \A i \in DOMAIN analyses, o \in RealtimeOutcomes :
            performRealtimeAnalysis(i, o) => FailureShown(o, ev'.trace)
       /\ \A i \in DOMAIN vizRequests, t \in VizTypes : \A o \in VisualizationOutcomes(t) :
            (vizRequests[i].type = t /\ handleVizTypeChangeResponse(i, o)) =>
               FailureShown(o, ev'.trace)]_vars

\* a failed request: transport error, status not OK, or a payload with success=false
Failure(o) == o.kind \in {"transport", "http"} \/ (o.kind = "json" /\ ~o.success)
\* trace raises exactly one notification, of kind error
OneError(trace) == Len(Toasts(trace)) = 1 /\ Toasts(trace)[1].arg[1] = "error"

\* C21: a failure of the races request, of a sessions request or of the realtime
\* analysis raises exactly one notification, of kind error, and the action runs to
\* its end (the request is settled; the analyze action reaches its finally blocks).
C21_FailuresNotifiedOnce ==
    [][/\ \A o \in RacesOutcomes :
            (Failure(o) /\ loadRaces(o)) => (OneError(ev'.trace) /\ racesRequest' = "done")
       /\ \A i \in DOMAIN sessionRequests, o \in SessionsOutcomes :
            (Failure(o) /\ loadSessions(i, o)) =>
               (OneError(ev'.trace) /\ Len(sessionRequests') = Len(sessionRequests) - 1)
       /\ \A i \in DOMAIN analyses, o \in RealtimeOutcomes :
            (Failure(o) /\ performRealtimeAnalysis(i, o)) =>
               /\ OneError(ev'.trace)
               /\ SubSeq(ev'.trace, 2, Len(ev'.trace)) = realtimeFinally
               /\ Len(analyses') = Len(analyses) - 1]_vars

\* a realtime analysis failed with a non-OK status and ended with its one notification
C21_Witness ==
    /\ ev.op = "performRealtimeAnalysis"
    /\ ActionEnded
    /\ Toasts(ev.trace) = <<showError(<<RealtimeFailed, "HTTP " \o HttpError.msg>>)>>
    /\ analyses = <<>>

\* C22: loadRaces fills the round dropdown only for a payload with success=true and a
\* races field; for any other payload the dropdown is unchanged and one error
\* notification carries the payload's error string, or 'Unknown error' when it has
\* none.  loadSessions does the same for the session grid and the sessions field.
C22_PopulateOnlyOnSuccess ==
    [][/\ \A o \in RacesOutcomes :
            (o.kind = "json" /\ loadRaces(o)) =>
               IF o.success /\ o.hasData
               THEN roundOptions' = Rounds /\ Toasts(ev'.trace) = <<>>
               ELSE /\ UNCHANGED roundOptions
                    /\ Toasts(ev'.trace)
                          = <<showError(<<"Failed to load races: ",
                                          IF o.error = Null THEN "Unknown error" ELSE o.error>>)>>
       /\ \A i \in DOMAIN sessionRequests, o \in SessionsOutcomes :
            (o.kind = "json" /\ loadSessions(i, o)) =>
               IF o.success /\ o.hasData
               THEN /\ sessionGrid' = [sessions |-> SessionsOf(sessionRequests[i]),
                                       checked |-> Null]
                    /\ Toasts(ev'.trace) = <<>>
               ELSE /\ UNCHANGED <<sessionGrid, selectedSession>>
                    /\ Toasts(ev'.trace)
                          = <<showError(<<"Failed to load sessions: ",
                                          IF o.error = Null THEN "Unknown error" ELSE o.error>>)>>]_vars

\* a sessions payload with success=false and an error string left a filled grid as it was
C22_Witness ==
    /\ ev.op = "loadSessions"
    /\ Toasts(ev.trace) = <<showError(<<"Failed to load sessions: ", "boom">>)>>
    /\ sessionGrid.sessions # <<>>
    /\ roundOptions = Rounds

\* C23: an immediate realtime result (success=true with a visualizations object) makes
\* that object the cached batch, whatever was cached before, and raises exactly one
\* success notification, with the stats when the response has them.
C23_BatchCachedAndOneSuccess ==
    [][\A i \in DOMAIN analyses, o \in RealtimeOutcomes :
          (/\ performRealtimeAnalysis(i, o)
           /\ o.kind = "json" /\ o.success /\ o.hasData) =>
             /\ lastRealtimeVisualizations'
                   = Some([types |-> Range(o.types), round |-> analyses[i].round,
                           session |-> analyses[i].session])
             /\ ToastsOfKind(ev'.trace, "success")
                   = <<showToast(CompletedMessage(o.stats), "success")>>]_vars

\* C25: the session grid offers only sessions of the current round: whenever it
\* offers sessions, they are the list loaded for currentRound.
C25_GridIsOfCurrentRound ==
    sessionGrid.sessions # <<>> =>
        /\ currentRound \in Rounds
        /\ sessionGrid.sessions = SessionsOf(currentRound)

\* C27: the task that handles a failed realtime analysis (transport error, status not
\* OK, success=false) leaves the displayed image, the cached batch, the round and the
\* session as they were.
C27_FailureKeepsResults ==
    [][\A i \in DOMAIN analyses, o \in RealtimeOutcomes :
          (Failure(o) /\ performRealtimeAnalysis(i, o)) =>
             UNCHANGED <<sentimentImage, lastRealtimeVisualizations, currentRound,
                         selectedSession>>]_vars

\* an analysis failed while an image was displayed and a batch cached
C27_Witness ==
    /\ ev.op = "performRealtimeAnalysis"
    /\ OneError(ev.trace)
    /\ sentimentImage # None
    /\ lastRealtimeVisualizations # None
    /\ lastRealtimeVisualizations[1].types # {}

\* C28: the loading indicator is shown by the task that starts a realtime analysis,
\* hidden by the task that ends one, on every path, and not shown whenever no
\* analysis is in flight.
C28_LoadingShownThenHidden ==
    /\ ClickStarted => (loading = "shown" /\ Count(ev.trace, "showRealtimeLoadingState") = 1)
    /\ ActionEnded => loading = "hidden"
    /\ analyses = <<>> => loading # "shown"

\* an analysis that failed has ended with the indicator hidden
C28_Witness ==
    /\ ev.op = "performRealtimeAnalysis"
    /\ ActionEnded
    /\ ToastsOfKind(ev.trace, "error") # <<>>
    /\ loading = "hidden"
    /\ analyses = <<>>
    /\ sentimentImage = None

\* C29: a sessions request is issued only when the races request has ended and filled
\* the dropdown, and only for a round of the dropdown; a change to the empty option
\* issues no request.
C29_SessionsAfterRaces ==
    /\ \A k \in DOMAIN ev.trace :
          (ev.trace[k].e = "fetch" /\ ev.trace[k].arg[1] = "sessions") =>
             /\ racesRequest = "done"
             /\ roundOptions = Rounds
             /\ ev.trace[k].arg[2] \in roundOptions
             /\ ev.trace[k].arg[2] = currentRound
    /\ \A k \in DOMAIN sessionRequests : sessionRequests[k] \in roundOptions
    /\ (ev.op = "roundChange" /\ Falsy(currentRound)) => Fetches(ev.trace) = <<>>

\* a later round change requested the sessions of round 2
C29_Witness ==
    /\ ev.op = "roundChange"
    /\ Fetches(ev.trace) = <<Eff("fetch", <<"sessions", "2">>)>>
    /\ sessionRequests = <<"2">>
    /\ userEvents >= 2

\* C30: every realtime-analysis POST is issued for a round and a session of the
\* session list of that round.
C30_PostForSessionOfRound ==
    \A k \in DOMAIN ev.trace :
       (ev.trace[k].e = "fetch" /\ ev.trace[k].arg[1] = "realtime-analysis") =>
          /\ ev.trace[k].arg[2] \in Rounds
          /\ ev.trace[k].arg[3] \in Range(SessionsOf(ev.trace[k].arg[2]))

\* C26: a poll that was started ends: with found, in the task of a response that
\* holds a visualization, or with not-found after maxAttempts fetches; no event of
\* the user changes a poll in progress; and, when every fetch settles and every timer
\* fires, the time comes after which no poll is in progress.
C26_PollRunsToCompletion ==
    /\ [][/\ userEvents' # userEvents =>
               /\ Len(analyses') >= Len(analyses)
               /\ \A i \in DOMAIN analyses : analyses'[i] = analyses[i]
          /\ \A i \in DOMAIN analyses :
               (/\ analyses[i].pc = "poll"
                /\ pollTimerFiredTs(i)
                /\ Len(analyses') < Len(analyses)) =>
                  /\ analyses[i].poll[1].fetches = analyses[i].poll[1].maxAttempts
                  /\ analyses[i].poll[1].attempt + 1 = analyses[i].poll[1].maxAttempts
          /\ \A i \in DOMAIN analyses, t \in VizTypes : \A o \in VisualizationOutcomes(t) :
               (/\ analyses[i].pc = "poll"
                /\ analyses[i].poll[1].visType = t
                /\ pollFetchSettledTs(i, o)
                /\ Len(analyses') < Len(analyses)) => HasVisualization(o)]_vars
    /\ <>[](\A i \in DOMAIN analyses : analyses[i].pc # "poll")

\* the user raised an event while a poll was between two attempts
C26_Witness ==
    /\ ev.op \in {"roundChange", "sessionChange", "vizTypeChange", "handleAnalyzeClick"}
    /\ \E i \in DOMAIN analyses :
          /\ analyses[i].pc = "poll"
          /\ analyses[i].poll[1].attempt >= 1
          /\ analyses[i].poll[1].fetches < analyses[i].poll[1].maxAttempts

\* C24: a notification is in the container from the task that calls showToast on; it
\* is removed once, by its own timer and not before its lifetime has passed, and it is
\* removed in the end; the notifications raised while others are displayed join them
\* (none is held back, dropped as a duplicate or put in place of another), they are
\* removed in the order they were raised, and a removal takes one notification away
\* and leaves the others and their timers as they were.
C24_ToastLifecycle ==
    /\ [][/\ notifier'.raised # notifier.raised =>
               /\ notifier'.raised = notifier.raised + 1
               /\ Len(Toasts(ev'.trace)) = 1
               /\ notifier'.children =
                    Append(notifier.children,
                           [id |-> notifier'.raised,
                            kind |-> Toasts(ev'.trace)[1].arg[1],
                            message |-> Tail(Toasts(ev'.trace)[1].arg)])
               /\ notifier'.timers =
                    Append(notifier.timers,
                           [id |-> notifier'.raised, remaining |-> ToastLifetimeMs])
          /\ notifier'.children # notifier.children /\ notifier'.raised = notifier.raised =>
               /\ notifier.timers # <<>>
               /\ Head(notifier.timers).remaining = 0
               /\ notifier.children # <<>>
               /\ Head(notifier.children).id = Head(notifier.timers).id
               /\ notifier'.children = Tail(notifier.children)
               /\ notifier'.timers = Tail(notifier.timers)
               /\ notifier'.removed = Append(notifier.removed, Head(notifier.children).id)
          /\ notifier'.removed # notifier.removed =>
               notifier'.children # notifier.children]_vars
    /\ [](/\ notifier.removed = [k \in 1..Len(notifier.removed) |-> k]
          /\ Len(notifier.children) = notifier.raised - Len(notifier.removed)
          /\ \A k \in DOMAIN notifier.children :
               /\ notifier.children[k].id = Len(notifier.removed) + k
               /\ \E j \in DOMAIN notifier.timers :
                    notifier.timers[j].id = notifier.children[k].id)
    /\ \A id \in 1..MaxToasts :
          (\E k \in DOMAIN notifier.children : notifier.children[k].id = id)
             ~> (id \in Range(notifier.removed))

\* two notifications of one kind and one text are displayed together with a third,
\* and the timer of the oldest is due
C24_Witness ==
    /\ Len(notifier.children) = 3
    /\ notifier.children[1].kind = notifier.children[2].kind
    /\ notifier.children[1].message = notifier.children[2].message
    /\ notifier.children[3].kind # notifier.children[1].kind
    /\ Head(notifier.timers).remaining = 0
    /\ notifier.timers[3].remaining > 0

\* C31: with no analyze action in flight, the trigger control is enabled exactly when a
\* session is selected; this holds after every round change, session-list response,
\* session selection and completed analysis.
C31_EnabledIffSessionSelected ==
    (/\ analyses = <<>>
     /\ ev.op \in {"roundChange", "loadSessions", "sessionChange", "performRealtimeAnalysis"})
        => (~analyzeButton.disabled <=> selectedSession # Null)

\* C32: the visualization handleVizTypeChange displays from the cached batch, with the
\* visualization-type panel visible, was produced for the round and the session that
\* are selected when it is displayed.
C32_CacheServesCurrentSelection ==
    (/\ ev.op = "handleVizTypeChange"
     /\ Count(ev.trace, "display") = 1
     /\ "visualization-selection" \in cards)
        => sentimentImage = Some(Visualization(checkedVizType, currentRound, selectedSession))

\* C33: the visualization the poller displays is for the round, the session and the
\* visualization type that are selected when it is displayed.
C33_PollDisplaysCurrentSelection ==
    (ev.op = "pollFetchSettled" /\ Count(ev.trace, "display") = 1)
        => sentimentImage = Some(Visualization(getSelectedVisualizationType, currentRound,
                                               selectedSession))

\* C34: the task that ends an analyze action leaves the wizard in step 4 with the
\* results card visible, whatever the response was; after a transport error, a status
\* that is not OK or a success=false payload it does so with no visualization
\* displayed.
C34_EveryCompletionEndsInStepFour ==
    [][\A i \in DOMAIN analyses, o \in RealtimeOutcomes :
          performRealtimeAnalysis(i, o) =>
             /\ currStep' = 4
             /\ "results-card" \in cards'
             /\ Failure(o) => /\ Count(ev'.trace, "display") = 0
                              /\ sentimentImage' = sentimentImage]_vars

\* an analysis failed with nothing ever displayed, and the wizard is in step 4
C34_Witness ==
    /\ ev.op = "performRealtimeAnalysis"
    /\ OneError(ev.trace)
    /\ Count(ev.trace, "display") = 0
    /\ sentimentImage = None
    /\ analyses = <<>>
    /\ currStep = 4
    /\ "results-card" \in cards

\* C35: the wizard step is 1, 2 or 4, never 3, and the visualization-type card is
\* visible exactly when the results card is.
C35_NeverStepThree ==
    /\ currStep \in {1, 2, 4}
    /\ "visualization-selection" \in cards <=> "results-card" \in cards

\* the user went back from step 4 to step 2 by checking another session
C35_Witness ==
    /\ ev.op = "sessionChange"
    /\ sentimentImage # None
    /\ lastRealtimeVisualizations # None
    /\ currStep = 2
    /\ cards = {"session-selection"}

\* C36: a change of the visualization type to t displays the cached visualization of
\* type t and issues no request when the cached batch has one; otherwise, with a
\* round and a session selected, it issues exactly one GET of the visualizations of
\* that round, session and type and leaves the image; otherwise it does nothing.
C36_VizTypeChangeCases ==
    [][\A t \in VizTypes :
          handleVizTypeChange(t) =>
             IF lastRealtimeVisualizations # None /\ t \in lastRealtimeVisualizations[1].types
             THEN /\ Count(ev'.trace, "display") = 1
                  /\ sentimentImage' # None
                  /\ sentimentImage'[1].type = t
                  /\ Fetches(ev'.trace) = <<>>
                  /\ Toasts(ev'.trace) = <<>>
                  /\ vizRequests' = vizRequests
             ELSE IF ~Falsy(currentRound) /\ ~Falsy(selectedSession)
             THEN /\ Fetches(ev'.trace)
                       = <<Eff("fetch", <<"visualizations", currentRound, selectedSession, t>>)>>
                  /\ Len(vizRequests') = Len(vizRequests) + 1
                  /\ Toasts(ev'.trace) = <<>>
                  /\ sentimentImage' = sentimentImage
             ELSE /\ ev'.trace = <<>>
                  /\ vizRequests' = vizRequests
                  /\ sentimentImage' = sentimentImage]_vars

\* the type was changed to one the cached batch holds, and then to one it does not
\* hold: the first was displayed from the cache, the second is being fetched
C36_Witness ==
    /\ ev.op = "handleVizTypeChange"
    /\ Len(Fetches(ev.trace)) = 1
    /\ lastRealtimeVisualizations # None
    /\ sentimentImage # None
    /\ sentimentImage[1].type \in lastRealtimeVisualizations[1].types
    /\ checkedVizType \notin lastRealtimeVisualizations[1].types
    /\ vizRequests # <<>>

\* C37 (as stated): the task that handles a realtime response with success=true and
\* an empty visualizations mapping runs to the end of the action, leaves the image as
\* it was, raises exactly one notification, of kind error, and leaves the trigger
\* control enabled.
C37_EmptyBatchOneErrorEnabled ==
    [][\A i \in DOMAIN analyses, o \in RealtimeOutcomes :
          (/\ o.kind = "json" /\ o.success /\ o.hasData /\ o.types = <<>>
           /\ performRealtimeAnalysis(i, o)) =>
             /\ Len(analyses') = Len(analyses) - 1
             /\ ActionEnded'
             /\ sentimentImage' = sentimentImage
             /\ OneError(ev'.trace)
             /\ ~analyzeButton'.disabled]_vars

\* C37 (amended): the same, with the trigger control left as updateAnalyzeButton()
\* computes it after button.disabled = false: enabled exactly when a session is
\* selected at that moment.
C37_EmptyBatchOneErrorRecomputed ==
    [][\A i \in DOMAIN analyses, o \in RealtimeOutcomes :
          (/\ o.kind = "json" /\ o.success /\ o.hasData /\ o.types = <<>>
           /\ performRealtimeAnalysis(i, o)) =>
             /\ Len(analyses') = Len(analyses) - 1
             /\ ActionEnded'
             /\ sentimentImage' = sentimentImage
             /\ OneError(ev'.trace)
             /\ Count(ev'.trace, "enable") >= 1
             /\ analyzeButton'.disabled <=> selectedSession' = Null]_vars

\* a response with an empty mapping was handled after an image had been displayed:
\* the error names the TypeError, the image is still there, the control is enabled
C37_Witness ==
    /\ ev.op = "performRealtimeAnalysis"
    /\ showError(<<RealtimeFailed, UndefinedDataMessage>>) \in Range(ev.trace)
    /\ lastRealtimeVisualizations # None
    /\ lastRealtimeVisualizations[1].types = {}
    /\ sentimentImage # None
    /\ ~analyzeButton.disabled

\* C38: a selected session implies a selected round: whenever selectedSession is not
\* null, currentRound is a round (neither null nor the empty option).
C38_SessionImpliesRound ==
    selectedSession # Null => ~Falsy(currentRound)

\* C39: whenever the realtime loading indicator is shown (#realtime-loading without
\* the hidden class), the results card that contains it is visible.
C39_LoadingInsideVisibleCard ==
    loading = "shown" => "results-card" \in cards

=============================================================================
